---- MODULE Spec2Model ----
(***************************************************************************)
(* The document rendering pipeline of the 1C Buddy chat UI                 *)
(* (src/app/chat/static/markdown.js, xml.js): the two tokenizers, the two  *)
(* language detectors, the highlighter entry points and Markdown.render.   *)
(*                                                                         *)
(* A JavaScript string is a sequence of characters, each character a       *)
(* one-character TLA+ string; a character outside ASCII is written by its  *)
(* code unit, "uXXXX" ("u041F" is the Cyrillic capital PE, "u00A7" the     *)
(* section sign).  An HTML string is such a sequence too, except that a    *)
(* tag the pipeline writes itself is one element, "<span class=...>".      *)
(* Cursors are zero-based, as in the source.                               *)
(***************************************************************************)
EXTENDS Naturals, Integers, Sequences, FiniteSets, TLC

\* ---------------------------------------------------------------- bounds
\* the longest input handed to a tokenizer, in atoms of its input alphabet
MaxLen == 3
\* the longest input handed to highlightXML, in atoms of its input alphabets
MaxXmlLen == 3
\* the longest text handed to a detector or an entry point, in atoms
MaxDetectLen == 2
\* the longest text of a rendered code block, in atoms, and the number of highlightAll runs
MaxBlockLen == 2
MaxRuns == 3
\* the longest input handed to highlightBSL, in words and the characters around them
MaxWords == 3
\* render: the most lines of block markup
MaxLines == 3
\* the pieces of a text with URLs
MaxLinks == 3
\* the blocks of a text, blank lines between them
MaxBlocks == 2
\* the characters after the opening delimiter of a diagram node
MaxLabel == 3
\* the diagrams of a container, and the calls of renderMermaidDiagrams on it
MaxDiagrams == 3
MaxCalls == 2
\* the evaluations of the script and calls of render on a page
MaxEvents == 7
\* the pieces of a text with fences
MaxPieces == 3
\* the pieces of a text given to a detector for its score
MaxScoreLen == 2
\* the pieces of a diagram source given to sanitizeMermaidCode
MaxSanitizeLen == 3
\* the lines of the code given to the folding parser
MaxFoldLines == 4
\* the handleFileSelection calls of a session, the files picked in all of them, and the size
\* limit the configuration gives, in KB
MaxSelections == 2
MaxPicked == 3
MaxLimitKB == 3
\* the lines of a file that is folded in the viewer
MaxFoldingLines == 4
\* the conversations of the list, the milliseconds of the clock, and the values
\* Math.random() takes
MaxConversations == 2
MaxClock == 2
MaxRandom == 2
\* the messages saved while conversations come and go, and the messages saved to one
\* conversation
MaxMessages == 2
MaxSaves == 503
\* the submits of one session
MaxStreams == 2
\* the delta events of one reply, and the characters of one delta
MaxDeltas == 3
MaxDeltaLen == 2
\* render: the longest plain text, in atoms, and the most segments of markup
MaxPlainLen == 3
MaxSegments == 2

\* ------------------------------------------------------------ characters
\* what code[k] yields outside the string; RegExp.test turns it into the
\* text "undefined" before matching
UNDEF == "undefined"

LatinUpper == <<"A","B","C","D","E","F","G","H","I","J","K","L","M",
                "N","O","P","Q","R","S","T","U","V","W","X","Y","Z">>
LatinLower == <<"a","b","c","d","e","f","g","h","i","j","k","l","m",
                "n","o","p","q","r","s","t","u","v","w","x","y","z">>
\* U+0410..U+042F and U+0401 (capital IO)
CyrUpper == <<"u0410","u0411","u0412","u0413","u0414","u0415","u0416","u0417",
              "u0418","u0419","u041A","u041B","u041C","u041D","u041E","u041F",
              "u0420","u0421","u0422","u0423","u0424","u0425","u0426","u0427",
              "u0428","u0429","u042A","u042B","u042C","u042D","u042E","u042F",
              "u0401">>
\* U+0430..U+044F and U+0451 (small io)
CyrLower == <<"u0430","u0431","u0432","u0433","u0434","u0435","u0436","u0437",
              "u0438","u0439","u043A","u043B","u043C","u043D","u043E","u043F",
              "u0440","u0441","u0442","u0443","u0444","u0445","u0446","u0447",
              "u0448","u0449","u044A","u044B","u044C","u044D","u044E","u044F",
              "u0451">>

Range(s) == {s[k] : k \in DOMAIN s}
Digits == {"0","1","2","3","4","5","6","7","8","9"}
LatinLetters == Range(LatinUpper) \cup Range(LatinLower)
CyrLetters == Range(CyrUpper) \cup Range(CyrLower)
Whitespace == {" ", "\t", "\r", "\n"}

UpperAll == LatinUpper \o CyrUpper
LowerAll == LatinLower \o CyrLower
LowerMap == [c \in Range(UpperAll) |-> LowerAll[CHOOSE k \in DOMAIN UpperAll : UpperAll[k] = c]]
UpperMap == [c \in Range(LowerAll) |-> UpperAll[CHOOSE k \in DOMAIN LowerAll : LowerAll[k] = c]]
\* String.prototype.toLowerCase / toUpperCase, on the characters of the model
ToLowerCh(c) == IF c \in DOMAIN LowerMap THEN LowerMap[c] ELSE c
ToUpperCh(c) == IF c \in DOMAIN UpperMap THEN UpperMap[c] ELSE c
ToLower(s) == [k \in DOMAIN s |-> ToLowerCh(s[k])]
\* a plausible slip: the word is compared with itself, not with its upper case
ToUpperKept(s) == s
ToUpper(s) == [k \in DOMAIN s |-> ToUpperCh(s[k])]

\* ------------------------------------------------------- string helpers
Min(a, b) == IF a < b THEN a ELSE b
Max(a, b) == IF a > b THEN a ELSE b
\* code[k], zero-based
At(s, k) == IF k >= 0 /\ k < Len(s) THEN s[k + 1] ELSE UNDEF
\* s.slice(a, b), 0 <= a
Slice(s, a, b) == SubSeq(s, a + 1, Min(b, Len(s)))
\* the first cursor k >= j at which s[k] is outside class, or s.length:
\* while (j < len && /[class]/.test(code[j])) j++
ScanWhile(s, j, class) ==
  IF j >= Len(s) THEN j
  ELSE LET stops == {k \in j..(Len(s) - 1) : s[k + 1] \notin class}
       IN IF stops = {} THEN Len(s)
          ELSE CHOOSE k \in stops : \A m \in stops : k <= m
\* s.indexOf(pat, from): the first k >= from with pat at k, or -1
StartsAt(s, pat, k) == k >= 0 /\ k + Len(pat) <= Len(s) /\ SubSeq(s, k + 1, k + Len(pat)) = pat
IndexOf(s, pat, from) ==
  LET hits == {k \in from..Len(s) : StartsAt(s, pat, k)}
  IN IF hits = {} THEN -1 ELSE CHOOSE k \in hits : \A m \in hits : k <= m
Contains(s, pat) == IndexOf(s, pat, 0) # -1
RECURSIVE Flatten(_)
Flatten(ss) == IF ss = <<>> THEN <<>> ELSE Head(ss) \o Flatten(Tail(ss))
\* all sequences over S of length n, and of length at most n
SeqsOfLen(S, n) == [1..n -> S]
SeqsUpTo(S, n) == UNION {SeqsOfLen(S, k) : k \in 0..n}

\* ------------------------------------------------------------- escaping
EscAmp == <<"&","a","m","p",";">>
EscLt == <<"&","l","t",";">>
EscGt == <<"&","g","t",";">>
EscQuot == <<"&","q","u","o","t",";">>
EscApos == <<"&","#","3","9",";">>
\* s.replace(/c/g, rep) for a one-character pattern c
RECURSIVE ReplaceCh(_, _, _)
ReplaceCh(s, c, rep) ==
  IF \A n \in DOMAIN s : s[n] # c THEN s
  ELSE SubSeq(s, 1, (CHOOSE n \in DOMAIN s : s[n] = c /\ \A m \in 1..(n - 1) : s[m] # c) - 1)
         \o rep
         \o ReplaceCh(SubSeq(s, (CHOOSE n \in DOMAIN s : s[n] = c /\ \A m \in 1..(n - 1) : s[m] # c) + 1,
                             Len(s)), c, rep)

\* a plausible slip: the replacement of "<" left out
escapeHTMLKeepLt(str) ==
  ReplaceCh(ReplaceCh(ReplaceCh(ReplaceCh(str,
    "&", EscAmp), ">", EscGt), "\"", EscQuot), "'", EscApos)
\* markdown.js escapeHTML: the five HTML-significant characters, & first
escapeHTML(str) ==
  ReplaceCh(ReplaceCh(ReplaceCh(ReplaceCh(ReplaceCh(str,
    "&", EscAmp), "<", EscLt), ">", EscGt), "\"", EscQuot), "'", EscApos)

\* a plausible slip: the ampersand escaped last, over the entities just written
escAmpLast(s) == ReplaceCh(ReplaceCh(ReplaceCh(s, "<", EscLt), ">", EscGt), "&", EscAmp)
\* markdown.js esc, of the scripting-language tokenizer
esc(s) == ReplaceCh(ReplaceCh(ReplaceCh(s, "&", EscAmp), "<", EscLt), ">", EscGt)

\* the text a browser reads back from escaped text: entities decoded, left to right
RECURSIVE Unescape(_)
Unescape(h) ==
  IF h = <<>> THEN <<>>
  ELSE IF StartsAt(h, EscAmp, 0) THEN <<"&">> \o Unescape(SubSeq(h, 6, Len(h)))
  ELSE IF StartsAt(h, EscLt, 0) THEN <<"<">> \o Unescape(SubSeq(h, 5, Len(h)))
  ELSE IF StartsAt(h, EscGt, 0) THEN <<">">> \o Unescape(SubSeq(h, 5, Len(h)))
  ELSE IF StartsAt(h, EscQuot, 0) THEN <<"\"">> \o Unescape(SubSeq(h, 7, Len(h)))
  ELSE IF StartsAt(h, EscApos, 0) THEN <<"'">> \o Unescape(SubSeq(h, 6, Len(h)))
  ELSE <<Head(h)>> \o Unescape(Tail(h))

\* the span classes the two tokenizers write
TokClasses == {"tok-str", "tok-num", "tok-com", "tok-preproc", "tok-attr", "tok-k",
               "tok-type", "tok-builtin", "tok-op",
               "tok-xml-cdata", "tok-xml-doctype", "tok-xml-decl", "tok-xml-pi",
               "tok-xml-tag", "tok-xml-attr", "tok-xml-val", "tok-xml-entity"}
SpanOpen(cls) == "<span class=\"" \o cls \o "\">"
SpanClose == "</span>"
SpanTags == {SpanOpen(c) : c \in TokClasses} \cup {SpanClose}
\* '<span class="' + cssClass + '">' + esc(text) + "</span>"
Span(cls, text) == <<SpanOpen(cls)>> \o esc(text) \o <<SpanClose>>
IsSpanTag(t) == t \in SpanTags
NotSpanTag(t) == t \notin SpanTags
\* the text content of tokenizer output: the span tags dropped, the entities decoded
TextContent(html) == Unescape(SelectSeq(html, NotSpanTag))

\* KEYWORDS_RU and KEYWORDS_EN, lower-cased (a letter uXXXX is the Cyrillic code unit U+XXXX)
KEYWORDS ==
  {
    <<"u043F","u0440","u043E","u0446","u0435","u0434","u0443","u0440","u0430">>,
    <<"u0444","u0443","u043D","u043A","u0446","u0438","u044F">>,
    <<"u043A","u043E","u043D","u0435","u0446","u043F","u0440","u043E","u0446","u0435","u0434","u0443","u0440","u044B">>,
    <<"u043A","u043E","u043D","u0435","u0446","u0444","u0443","u043D","u043A","u0446","u0438","u0438">>,
    <<"u043F","u0435","u0440","u0435","u043C">>,
    <<"u044D","u043A","u0441","u043F","u043E","u0440","u0442">>,
    <<"u0435","u0441","u043B","u0438">>,
    <<"u0442","u043E","u0433","u0434","u0430">>,
    <<"u0438","u043D","u0430","u0447","u0435">>,
    <<"u0438","u043D","u0430","u0447","u0435","u0435","u0441","u043B","u0438">>,
    <<"u043A","u043E","u043D","u0435","u0446","u0435","u0441","u043B","u0438">>,
    <<"u0434","u043B","u044F">>,
    <<"u043A","u0430","u0436","u0434","u043E","u0433","u043E">>,
    <<"u043A","u0430","u0436","u0434","u044B","u0439">>,
    <<"u0438","u0437">>,
    <<"u043F","u043E">>,
    <<"u043F","u043E","u043A","u0430">>,
    <<"u0446","u0438","u043A","u043B">>,
    <<"u043A","u043E","u043D","u0435","u0446","u0446","u0438","u043A","u043B","u0430">>,
    <<"u0432","u043E","u0437","u0432","u0440","u0430","u0442">>,
    <<"u043F","u0440","u0435","u0440","u0432","u0430","u0442","u044C">>,
    <<"u043F","u0440","u043E","u0434","u043E","u043B","u0436","u0438","u0442","u044C">>,
    <<"u043F","u043E","u043F","u044B","u0442","u043A","u0430">>,
    <<"u0438","u0441","u043A","u043B","u044E","u0447","u0435","u043D","u0438","u0435">>,
    <<"u043A","u043E","u043D","u0435","u0446","u043F","u043E","u043F","u044B","u0442","u043A","u0438">>,
    <<"u0432","u044B","u0437","u0432","u0430","u0442","u044C","u0438","u0441","u043A","u043B","u044E","u0447","u0435","u043D","u0438","u0435">>,
    <<"u043D","u043E","u0432","u044B","u0439">>,
    <<"u043F","u0435","u0440","u0435","u0439","u0442","u0438">>,
    <<"u0438">>,
    <<"u0438","u043B","u0438">>,
    <<"u043D","u0435">>,
    <<"u0438","u0441","u0442","u0438","u043D","u0430">>,
    <<"u043B","u043E","u0436","u044C">>,
    <<"u043D","u0435","u043E","u043F","u0440","u0435","u0434","u0435","u043B","u0435","u043D","u043E">>,
    <<"n","u","l","l">>,
    <<"u044D","u0442","u043E","u0442","u043E","u0431","u044A","u0435","u043A","u0442">>,
    <<"u043A","u0430","u043A">>,
    <<"u0440","u0430","u0437","u0440","u0435","u0448","u0435","u043D","u043D","u044B","u0435">>,
    <<"u0440","u0430","u0437","u043B","u0438","u0447","u043D","u044B","u0435">>,
    <<"u043F","u0435","u0440","u0432","u044B","u0435">>,
    <<"u043F","u0443","u0441","u0442","u0430","u044F","u0442","u0430","u0431","u043B","u0438","u0446","u0430">>,
    <<"u043F","u043E","u043C","u0435","u0441","u0442","u0438","u0442","u044C">>,
    <<"u0443","u043D","u0438","u0447","u0442","u043E","u0436","u0438","u0442","u044C">>,
    <<"u0438","u043D","u0434","u0435","u043A","u0441","u0438","u0440","u043E","u0432","u0430","u0442","u044C">>,
    <<"u0432","u044B","u0440","u0430","u0437","u0438","u0442","u044C">>,
    <<"u043F","u043E","u0434","u043E","u0431","u043D","u043E">>,
    <<"e","s","c","a","p","e">>,
    <<"u0441","u0441","u044B","u043B","u043A","u0430">>,
    <<"d","a","t","e","t","i","m","e">>,
    <<"u0438","u0435","u0440","u0430","u0440","u0445","u0438","u0438">>,
    <<"u0430","u0432","u0442","u043E","u0443","u043F","u043E","u0440","u044F","u0434","u043E","u0447","u0438","u0432","u0430","u043D","u0438","u0435">>,
    <<"u043F","u0435","u0440","u0438","u043E","u0434","u0430","u043C","u0438">>,
    <<"u0442","u043E","u043B","u044C","u043A","u043E">>,
    <<"u0438","u0435","u0440","u0430","u0440","u0445","u0438","u044F">>,
    <<"u0432","u043D","u0443","u0442","u0440","u0435","u043D","u043D","u0435","u0435">>,
    <<"u043B","u0435","u0432","u043E","u0435">>,
    <<"u043F","u0440","u0430","u0432","u043E","u0435">>,
    <<"u043F","u043E","u043B","u043D","u043E","u0435">>,
    <<"u0441","u043E","u0435","u0434","u0438","u043D","u0435","u043D","u0438","u0435">>,
    <<"u0433","u0434","u0435">>,
    <<"u0441","u0433","u0440","u0443","u043F","u043F","u0438","u0440","u043E","u0432","u0430","u0442","u044C">>,
    <<"u0438","u043C","u0435","u044E","u0449","u0438","u0435">>,
    <<"u043E","u0431","u044A","u0435","u0434","u0438","u043D","u0438","u0442","u044C">>,
    <<"u0443","u043F","u043E","u0440","u044F","u0434","u043E","u0447","u0438","u0442","u044C">>,
    <<"u0438","u0442","u043E","u0433","u0438">>,
    <<"u043E","u0431","u0449","u0438","u0435">>,
    <<"u0438","u0437","u043C","u0435","u043D","u0435","u043D","u0438","u044F">>,
    <<"u0432">>,
    <<"u043A","u043E","u043B","u0438","u0447","u0435","u0441","u0442","u0432","u043E">>,
    <<"u0441","u0443","u043C","u043C","u0430">>,
    <<"u0441","u0440","u0435","u0434","u043D","u0435","u0435">>,
    <<"u043C","u0430","u043A","u0441","u0438","u043C","u0443","u043C">>,
    <<"u043C","u0438","u043D","u0438","u043C","u0443","u043C">>,
    <<"u0435","u0441","u0442","u044C">>,
    <<"u043C","u0435","u0436","u0434","u0443">>,
    <<"u0441","u043E","u0434","u0435","u0440","u0436","u0438","u0442">>,
    <<"u043D","u0430","u0447","u0438","u043D","u0430","u0435","u0442","u0441","u044F","u0441">>,
    <<"u0437","u0430","u043A","u0430","u043D","u0447","u0438","u0432","u0430","u0435","u0442","u0441","u044F","u043D","u0430">>,
    <<"u0432","u043E","u0437","u0440">>,
    <<"u0443","u0431","u044B","u0432">>,
    <<"u0432","u0441","u0435","u0433","u043E">>,
    <<"p","r","o","c","e","d","u","r","e">>,
    <<"f","u","n","c","t","i","o","n">>,
    <<"e","n","d","p","r","o","c","e","d","u","r","e">>,
    <<"e","n","d","f","u","n","c","t","i","o","n">>,
    <<"v","a","r">>,
    <<"e","x","p","o","r","t">>,
    <<"i","f">>,
    <<"t","h","e","n">>,
    <<"e","l","s","e">>,
    <<"e","l","s","e","i","f">>,
    <<"e","n","d","i","f">>,
    <<"f","o","r">>,
    <<"e","a","c","h">>,
    <<"i","n">>,
    <<"t","o">>,
    <<"w","h","i","l","e">>,
    <<"d","o">>,
    <<"e","n","d","d","o">>,
    <<"r","e","t","u","r","n">>,
    <<"b","r","e","a","k">>,
    <<"c","o","n","t","i","n","u","e">>,
    <<"t","r","y">>,
    <<"e","x","c","e","p","t">>,
    <<"e","n","d","t","r","y">>,
    <<"r","a","i","s","e">>,
    <<"n","e","w">>,
    <<"g","o","t","o">>,
    <<"a","n","d">>,
    <<"o","r">>,
    <<"n","o","t">>,
    <<"t","r","u","e">>,
    <<"f","a","l","s","e">>,
    <<"u","n","d","e","f","i","n","e","d">>,
    <<"t","h","i","s","o","b","j","e","c","t">>,
    <<"a","s">>,
    <<"a","l","l","o","w","e","d">>,
    <<"d","i","s","t","i","n","c","t">>,
    <<"t","o","p">>,
    <<"e","m","p","t","y","t","a","b","l","e">>,
    <<"i","n","t","o">>,
    <<"d","r","o","p">>,
    <<"i","n","d","e","x">>,
    <<"c","a","s","t">>,
    <<"l","i","k","e">>,
    <<"r","e","f","s">>,
    <<"v","a","l","u","e">>,
    <<"h","i","e","r","a","r","c","h","i","e","s">>,
    <<"a","u","t","o","o","r","d","e","r">>,
    <<"p","e","r","i","o","d","s">>,
    <<"o","n","l","y">>,
    <<"h","i","e","r","a","r","c","h","y">>,
    <<"i","n","n","e","r">>,
    <<"l","e","f","t">>,
    <<"r","i","g","h","t">>,
    <<"f","u","l","l">>,
    <<"j","o","i","n">>,
    <<"w","h","e","r","e">>,
    <<"g","r","o","u","p">>,
    <<"b","y">>,
    <<"h","a","v","i","n","g">>,
    <<"u","n","i","o","n">>,
    <<"o","r","d","e","r">>,
    <<"t","o","t","a","l","s">>,
    <<"o","v","e","r","a","l","l">>,
    <<"u","p","d","a","t","e">>,
    <<"o","f">>,
    <<"c","o","u","n","t">>,
    <<"s","u","m">>,
    <<"a","v","g">>,
    <<"m","a","x">>,
    <<"m","i","n">>,
    <<"i","s">>,
    <<"b","e","t","w","e","e","n">>,
    <<"c","o","n","t","a","i","n","s">>,
    <<"b","e","g","i","n","s","w","i","t","h">>,
    <<"e","n","d","s","w","i","t","h">>,
    <<"a","s","c">>,
    <<"d","e","s","c">>,
    <<"t","o","t","a","l">>
  }

\* the query words highlighted only in an all-uppercase spelling
UPPERCASE_ONLY_KEYWORDS ==
  {
    <<"u0432","u044B","u0431","u0440","u0430","u0442","u044C">>,
    <<"u0432","u044B","u0431","u043E","u0440">>,
    <<"u043A","u043E","u0433","u0434","u0430">>,
    <<"u043A","u043E","u043D","u0435","u0446">>
  }

\* TYPES_RU and TYPES_EN, lower-cased
TYPES ==
  {
    <<"h","t","t","p","u0441","u043E","u0435","u0434","u0438","u043D","u0435","u043D","u0438","u0435">>,
    <<"h","t","t","p","u0437","u0430","u043F","u0440","u043E","u0441">>,
    <<"h","t","t","p","u043E","u0442","u0432","u0435","u0442">>,
    <<"f","t","p","u0441","u043E","u0435","u0434","u0438","u043D","u0435","u043D","u0438","u0435">>,
    <<"w","s","u043F","u0440","u043E","u043A","u0441","u0438">>,
    <<"u0438","u043D","u0442","u0435","u0440","u043D","u0435","u0442","u043F","u0440","u043E","u043A","u0441","u0438">>,
    <<"u0437","u0430","u0449","u0438","u0449","u0435","u043D","u043D","u043E","u0435","u0441","u043E","u0435","u0434","u0438","u043D","u0435","u043D","u0438","u0435","o","p","e","n","s","s","l">>,
    <<"u0442","u0430","u0431","u043B","u0438","u0446","u0430","u0437","u043D","u0430","u0447","u0435","u043D","u0438","u0439">>,
    <<"u043A","u043E","u043B","u043E","u043D","u043A","u0430","u0442","u0430","u0431","u043B","u0438","u0446","u044B","u0437","u043D","u0430","u0447","u0435","u043D","u0438","u0439">>,
    <<"u043A","u043E","u043B","u043B","u0435","u043A","u0446","u0438","u044F","u0437","u043D","u0430","u0447","u0435","u043D","u0438","u0439">>,
    <<"u0441","u043E","u043E","u0442","u0432","u0435","u0442","u0441","u0442","u0432","u0438","u0435">>,
    <<"u043C","u0430","u0441","u0441","u0438","u0432">>,
    <<"u0441","u0442","u0440","u0443","u043A","u0442","u0443","u0440","u0430">>,
    <<"u0444","u0438","u043A","u0441","u0438","u0440","u043E","u0432","u0430","u043D","u043D","u044B","u0439","u043C","u0430","u0441","u0441","u0438","u0432">>,
    <<"u0444","u0438","u043A","u0441","u0438","u0440","u043E","u0432","u0430","u043D","u043D","u0430","u044F","u0441","u0442","u0440","u0443","u043A","u0442","u0443","u0440","u0430">>,
    <<"u0441","u043F","u0438","u0441","u043E","u043A","u0437","u043D","u0430","u0447","u0435","u043D","u0438","u0439">>,
    <<"u0434","u0435","u0440","u0435","u0432","u043E","u0437","u043D","u0430","u0447","u0435","u043D","u0438","u0439">>,
    <<"u0441","u0442","u0440","u043E","u043A","u0430","u0434","u0435","u0440","u0435","u0432","u0430","u0437","u043D","u0430","u0447","u0435","u043D","u0438","u0439">>,
    <<"u0437","u0430","u043F","u0440","u043E","u0441">>,
    <<"u0432","u044B","u0431","u043E","u0440","u043A","u0430">>,
    <<"u043F","u043E","u0441","u0442","u0440","u043E","u0438","u0442","u0435","u043B","u044C","u0437","u0430","u043F","u0440","u043E","u0441","u0430">>,
    <<"u043F","u043E","u0441","u0442","u0440","u043E","u0438","u0442","u0435","u043B","u044C","u043E","u0442","u0447","u0435","u0442","u0430">>,
    <<"u0441","u0445","u0435","u043C","u0430","u0437","u0430","u043F","u0440","u043E","u0441","u0430">>,
    <<"u043C","u0435","u043D","u0435","u0434","u0436","u0435","u0440","u0432","u0440","u0435","u043C","u0435","u043D","u043D","u044B","u0445","u0442","u0430","u0431","u043B","u0438","u0446">>,
    <<"u043E","u043F","u0438","u0441","u0430","u043D","u0438","u0435","u0442","u0438","u043F","u043E","u0432">>,
    <<"u043A","u0432","u0430","u043B","u0438","u0444","u0438","u043A","u0430","u0442","u043E","u0440","u044B","u0441","u0442","u0440","u043E","u043A","u0438">>,
    <<"u043A","u0432","u0430","u043B","u0438","u0444","u0438","u043A","u0430","u0442","u043E","u0440","u044B","u0447","u0438","u0441","u043B","u0430">>,
    <<"u043A","u0432","u0430","u043B","u0438","u0444","u0438","u043A","u0430","u0442","u043E","u0440","u044B","u0434","u0430","u0442","u044B">>,
    <<"u043A","u0432","u0430","u043B","u0438","u0444","u0438","u043A","u0430","u0442","u043E","u0440","u044B","u0434","u0432","u043E","u0438","u0447","u043D","u044B","u0445","u0434","u0430","u043D","u043D","u044B","u0445">>,
    <<"u043E","u0431","u043E","u0440","u043E","u0442","u044B","u0434","u0442">>,
    <<"u043E","u0431","u043E","u0440","u043E","u0442","u044B","u0434","u0442","u043A","u0442">>,
    <<"u043E","u0431","u043E","u0440","u043E","u0442","u044B">>,
    <<"u043E","u0441","u0442","u0430","u0442","u043A","u0438">>,
    <<"u043E","u0441","u0442","u0430","u0442","u043A","u0438","u0438","u0432","u043E","u0440","u043E","u0442","u044B">>,
    <<"u0433","u0440","u0430","u043D","u0438","u0446","u044B">>,
    <<"u0441","u0440","u0435","u0437","u043F","u0435","u0440","u0432","u044B","u0445">>,
    <<"u0441","u0440","u0435","u0437","u043F","u043E","u0441","u043B","u0435","u0434","u043D","u0438","u0445">>,
    <<"u0437","u0430","u043F","u0438","u0441","u044C","u0440","u0435","u0433","u0438","u0441","u0442","u0440","u0430">>,
    <<"u043D","u0430","u0431","u043E","u0440","u0437","u0430","u043F","u0438","u0441","u0435","u0439">>,
    <<"u043C","u0435","u043D","u0435","u0434","u0436","u0435","u0440","u0437","u0430","u043F","u0438","u0441","u0438">>,
    <<"u0441","u0442","u0440","u043E","u043A","u0430">>,
    <<"u0447","u0438","u0441","u043B","u043E">>,
    <<"u0434","u0430","u0442","u0430">>,
    <<"u0431","u0443","u043B","u0435","u0432","u043E">>,
    <<"u0442","u0438","u043F">>,
    <<"u0445","u0440","u0430","u043D","u0438","u043B","u0438","u0449","u0435","u0437","u043D","u0430","u0447","u0435","u043D","u0438","u044F">>,
    <<"u0434","u0432","u043E","u0438","u0447","u043D","u044B","u0435","u0434","u0430","u043D","u043D","u044B","u0435">>,
    <<"u0431","u0443","u0444","u0435","u0440","u0434","u0432","u043E","u0438","u0447","u043D","u044B","u0445","u0434","u0430","u043D","u043D","u044B","u0445">>,
    <<"x","m","l","u0447","u0442","u0435","u043D","u0438","u0435">>,
    <<"x","m","l","u0437","u0430","u043F","u0438","u0441","u044C">>,
    <<"u0447","u0442","u0435","u043D","u0438","u0435","j","s","o","n">>,
    <<"u0437","u0430","u043F","u0438","u0441","u044C","j","s","o","n">>,
    <<"u0447","u0442","u0435","u043D","u0438","u0435","u0434","u0430","u043D","u043D","u044B","u0445">>,
    <<"u0437","u0430","u043F","u0438","u0441","u044C","u0434","u0430","u043D","u043D","u044B","u0445">>,
    <<"u0447","u0442","u0435","u043D","u0438","u0435","u0442","u0435","u043A","u0441","u0442","u0430">>,
    <<"u0437","u0430","u043F","u0438","u0441","u044C","u0442","u0435","u043A","u0441","u0442","u0430">>,
    <<"u0442","u0435","u043A","u0441","u0442","u043E","u0432","u044B","u0439","u0434","u043E","u043A","u0443","u043C","u0435","u043D","u0442">>,
    <<"u0444","u043E","u0440","u043C","u0430","u0442","u0438","u0440","u043E","u0432","u0430","u043D","u043D","u044B","u0439","u0434","u043E","u043A","u0443","u043C","u0435","u043D","u0442">>,
    <<"u0442","u0430","u0431","u043B","u0438","u0447","u043D","u044B","u0439","u0434","u043E","u043A","u0443","u043C","u0435","u043D","u0442">>,
    <<"u043F","u043E","u0441","u0442","u0440","u043E","u0438","u0442","u0435","u043B","u044C","u0442","u0430","u0431","u043B","u0438","u0447","u043D","u043E","u0433","u043E","u0434","u043E","u043A","u0443","u043C","u0435","u043D","u0442","u0430">>,
    <<"u0444","u0430","u0439","u043B">>,
    <<"u0444","u0430","u0439","u043B","u043E","u0432","u044B","u0439","u043F","u043E","u0442","u043E","u043A">>,
    <<"u043A","u0430","u0442","u0430","u043B","u043E","u0433">>,
    <<"u043F","u043E","u0438","u0441","u043A","u0444","u0430","u0439","u043B","u043E","u0432">>,
    <<"z","i","p","u0444","u0430","u0439","u043B">>,
    <<"u0443","u043F","u0440","u0430","u0432","u043B","u044F","u0435","u043C","u0430","u044F","u0444","u043E","u0440","u043C","u0430">>,
    <<"u0444","u043E","u0440","u043C","u0430","u043A","u043B","u0438","u0435","u043D","u0442","u0441","u043A","u043E","u0433","u043E","u043F","u0440","u0438","u043B","u043E","u0436","u0435","u043D","u0438","u044F">>,
    <<"u043A","u043E","u043C","u0430","u043D","u0434","u0430","u0444","u043E","u0440","u043C","u044B">>,
    <<"u044D","u043B","u0435","u043C","u0435","u043D","u0442","u0444","u043E","u0440","u043C","u044B">>,
    <<"u0442","u0430","u0431","u043B","u0438","u0446","u0430","u0444","u043E","u0440","u043C","u044B">>,
    <<"u0433","u0440","u0443","u043F","u043F","u0430","u0444","u043E","u0440","u043C","u044B">>,
    <<"u043A","u043D","u043E","u043F","u043A","u0430","u0444","u043E","u0440","u043C","u044B">>,
    <<"u043F","u043E","u043B","u0435","u0444","u043E","u0440","u043C","u044B">>,
    <<"u0441","u043E","u0435","u0434","u0438","u043D","u0435","u043D","u0438","u0435">>,
    <<"c","o","m","u043E","u0431","u044A","u0435","u043A","u0442">>,
    <<"u0444","u043E","u043D","u043E","u0432","u043E","u0435","u0437","u0430","u0434","u0430","u043D","u0438","u0435">>,
    <<"w","s","u0441","u0441","u044B","u043B","u043A","u0430">>,
    <<"w","s","u043E","u043F","u0440","u0435","u0434","u0435","u043B","u0435","u043D","u0438","u044F">>,
    <<"u0441","u0435","u0440","u0438","u0430","u043B","u0438","u0437","u0430","u0442","u043E","u0440","x","d","t","o">>,
    <<"u0444","u0430","u0431","u0440","u0438","u043A","u0430","x","d","t","o">>,
    <<"u043E","u0431","u044A","u0435","u043A","u0442","x","d","t","o">>,
    <<"u0443","u043D","u0438","u043A","u0430","u043B","u044C","u043D","u044B","u0439","u0438","u0434","u0435","u043D","u0442","u0438","u0444","u0438","u043A","u0430","u0442","u043E","u0440">>,
    <<"u0433","u0440","u0430","u043D","u0438","u0446","u0430">>,
    <<"u0442","u043E","u0447","u043A","u0430","u0432","u043E","u0432","u0440","u0435","u043C","u0435","u043D","u0438">>,
    <<"u0444","u043E","u0440","u043C","u0430","u0442","u0438","u0440","u043E","u0432","u0430","u043D","u043D","u0430","u044F","u0441","u0442","u0440","u043E","u043A","u0430">>,
    <<"u043A","u0430","u0440","u0442","u0438","u043D","u043A","u0430">>,
    <<"u0448","u0440","u0438","u0444","u0442">>,
    <<"u0446","u0432","u0435","u0442">>,
    <<"u0445","u0435","u0448","u0438","u0440","u043E","u0432","u0430","u043D","u0438","u0435","u0434","u0430","u043D","u043D","u044B","u0445">>,
    <<"u0448","u0438","u0444","u0440","u043E","u0432","u0430","u043D","u0438","u0435","u0434","u0430","u043D","u043D","u044B","u0445">>,
    <<"u044D","u043B","u0435","u043A","u0442","u0440","u043E","u043D","u043D","u0430","u044F","u043F","u043E","u0434","u043F","u0438","u0441","u044C">>,
    <<"u0441","u0435","u0440","u0442","u0438","u0444","u0438","u043A","u0430","u0442","u043A","u043B","u0438","u0435","u043D","u0442","u0430">>,
    <<"u0441","u043E","u043E","u0431","u0449","u0435","u043D","u0438","u0435","u043F","u043E","u043B","u044C","u0437","u043E","u0432","u0430","u0442","u0435","u043B","u044E">>,
    <<"u0434","u0438","u0430","u043B","u043E","u0433","u0432","u044B","u0431","u043E","u0440","u0430","u0444","u0430","u0439","u043B","u0430">>,
    <<"u0434","u0438","u0430","u043B","u043E","u0433","u0440","u0435","u0434","u0430","u043A","u0442","u0438","u0440","u043E","u0432","u0430","u043D","u0438","u044F","u0444","u043E","u0440","u043C","u0430","u0442","u0438","u0440","u043E","u0432","u0430","u043D","u043D","u043E","u0439","u0441","u0442","u0440","u043E","u043A","u0438">>,
    <<"h","t","t","p","c","o","n","n","e","c","t","i","o","n">>,
    <<"h","t","t","p","r","e","q","u","e","s","t">>,
    <<"h","t","t","p","r","e","s","p","o","n","s","e">>,
    <<"f","t","p","c","o","n","n","e","c","t","i","o","n">>,
    <<"w","s","p","r","o","x","y">>,
    <<"a","r","r","a","y">>,
    <<"s","t","r","u","c","t","u","r","e">>,
    <<"f","i","x","e","d","a","r","r","a","y">>,
    <<"f","i","x","e","d","s","t","r","u","c","t","u","r","e">>,
    <<"m","a","p">>,
    <<"v","a","l","u","e","t","a","b","l","e">>,
    <<"v","a","l","u","e","t","r","e","e">>,
    <<"v","a","l","u","e","l","i","s","t">>,
    <<"q","u","e","r","y">>,
    <<"q","u","e","r","y","b","u","i","l","d","e","r">>,
    <<"q","u","e","r","y","s","c","h","e","m","a">>,
    <<"s","e","l","e","c","t","i","o","n">>,
    <<"t","y","p","e">>,
    <<"t","y","p","e","d","e","s","c","r","i","p","t","i","o","n">>,
    <<"f","i","l","e">>,
    <<"b","i","n","a","r","y","d","a","t","a">>,
    <<"t","e","x","t","r","e","a","d","e","r">>,
    <<"t","e","x","t","w","r","i","t","e","r">>,
    <<"x","m","l","r","e","a","d","e","r">>,
    <<"x","m","l","w","r","i","t","e","r">>,
    <<"j","s","o","n","r","e","a","d","e","r">>,
    <<"j","s","o","n","w","r","i","t","e","r">>,
    <<"u","u","i","d">>,
    <<"b","o","u","n","d","a","r","y">>,
    <<"f","o","r","m","a","t","s","t","r","i","n","g">>,
    <<"p","i","c","t","u","r","e">>
  }

\* BUILTINS_RU and BUILTINS_EN, lower-cased
BUILTINS ==
  {
    <<"u0441","u0442","u0440","u0434","u043B","u0438","u043D","u0430">>,
    <<"u0441","u0442","u0440","u043D","u0430","u0439","u0442","u0438">>,
    <<"u0441","u0442","u0440","u043F","u043E","u043B","u0443","u0447","u0438","u0442","u044C","u0441","u0442","u0440","u043E","u043A","u0443">>,
    <<"u0441","u0442","u0440","u0440","u0430","u0437","u0434","u0435","u043B","u0438","u0442","u044C">>,
    <<"u0441","u0442","u0440","u0441","u043E","u0435","u0434","u0438","u043D","u0438","u0442","u044C">>,
    <<"u0441","u0442","u0440","u0437","u0430","u043C","u0435","u043D","u0438","u0442","u044C">>,
    <<"u0441","u0442","u0440","u0448","u0430","u0431","u043B","u043E","u043D">>,
    <<"u0441","u0442","u0440","u043D","u0430","u0447","u0438","u043D","u0430","u0435","u0442","u0441","u044F","u0441">>,
    <<"u0441","u0442","u0440","u0437","u0430","u043A","u0430","u043D","u0447","u0438","u0432","u0430","u0435","u0442","u0441","u044F","u043D","u0430">>,
    <<"u0441","u043E","u043A","u0440","u043B">>,
    <<"u0441","u043E","u043A","u0440","u043F">>,
    <<"u0441","u043E","u043A","u0440","u043B","u043F">>,
    <<"u0432","u0440","u0435","u0433">>,
    <<"u043D","u0440","u0435","u0433">>,
    <<"u0442","u0440","u0435","u0433">>,
    <<"u0441","u0438","u043C","u0432">>,
    <<"u043A","u043E","u0434","u0441","u0438","u043C","u0432">>,
    <<"u043F","u0443","u0441","u0442","u0430","u044F","u0441","u0442","u0440","u043E","u043A","u0430">>,
    <<"u0441","u0442","u0440","u0441","u0440","u0430","u0432","u043D","u0438","u0442","u044C">>,
    <<"u0441","u0442","u0440","u0447","u0438","u0441","u043B","u043E","u0441","u0442","u0440","u043E","u043A">>,
    <<"u0441","u0442","u0440","u0447","u0438","u0441","u043B","u043E","u0432","u0445","u043E","u0436","u0434","u0435","u043D","u0438","u0439">>,
    <<"u0441","u0442","u0440","u043F","u043E","u0432","u0442","u043E","u0440","u0438","u0442","u044C">>,
    <<"u043F","u043E","u0434","u0441","u0442","u0440","u043E","u043A","u0430">>,
    <<"u043F","u0440","u0435","u0434","u0441","u0442","u0430","u0432","u043B","u0435","u043D","u0438","u0435">>,
    <<"u043B","u0435","u0432">>,
    <<"u043F","u0440","u0430","u0432">>,
    <<"u0441","u0440","u0435","u0434">>,
    <<"u043D","u0441","u0442","u0440">>,
    <<"u0441","u0442","u0440","u0441","u043E","u043E","u0442","u0432","u0435","u0442","u0441","u0442","u0432","u0443","u0435","u0442","u0448","u0430","u0431","u043B","u043E","u043D","u0443">>,
    <<"u0441","u0442","u0440","u043D","u0430","u0439","u0442","u0438","u0440","u0435","u0433","u0443","u043B","u044F","u0440","u043D","u043E","u0435","u0432","u044B","u0440","u0430","u0436","u0435","u043D","u0438","u0435">>,
    <<"u0441","u0442","u0440","u0437","u0430","u043C","u0435","u043D","u0438","u0442","u044C","u0440","u0435","u0433","u0443","u043B","u044F","u0440","u043D","u043E","u0435","u0432","u044B","u0440","u0430","u0436","u0435","u043D","u0438","u0435">>,
    <<"u0441","u0442","u0440","u0440","u0430","u0437","u0434","u0435","u043B","u0438","u0442","u044C","u0440","u0435","u0433","u0443","u043B","u044F","u0440","u043D","u043E","u0435","u0432","u044B","u0440","u0430","u0436","u0435","u043D","u0438","u0435">>,
    <<"u0447","u0438","u0441","u043B","u043E">>,
    <<"u0446","u0435","u043B">>,
    <<"u043E","u043A","u0440">>,
    <<"u043E","u043A","u0440","u0443","u0433","u043B","u0438","u0442","u044C">>,
    <<"u043C","u0430","u043A","u0441">>,
    <<"u043C","u0438","u043D">>,
    <<"u0444","u043E","u0440","u043C","u0430","u0442">>,
    <<"p","o","w">>,
    <<"s","q","r","t">>,
    <<"l","o","g">>,
    <<"l","o","g","1","0">>,
    <<"e","x","p">>,
    <<"s","i","n">>,
    <<"c","o","s">>,
    <<"t","a","n">>,
    <<"a","s","i","n">>,
    <<"a","c","o","s">>,
    <<"a","t","a","n">>,
    <<"a","b","s">>,
    <<"u0441","u043B","u0443","u0447","u0430","u0439","u043D","u043E","u0435","u0447","u0438","u0441","u043B","u043E">>,
    <<"u0434","u0430","u0442","u0430">>,
    <<"u0433","u043E","u0434">>,
    <<"u043C","u0435","u0441","u044F","u0446">>,
    <<"u0434","u0435","u043D","u044C">>,
    <<"u0447","u0430","u0441">>,
    <<"u043C","u0438","u043D","u0443","u0442","u0430">>,
    <<"u0441","u0435","u043A","u0443","u043D","u0434","u0430">>,
    <<"u0434","u0435","u043D","u044C","u0433","u043E","u0434","u0430">>,
    <<"u0434","u0435","u043D","u044C","u043D","u0435","u0434","u0435","u043B","u0438">>,
    <<"u043D","u0435","u0434","u0435","u043B","u044F","u0433","u043E","u0434","u0430">>,
    <<"u043D","u0430","u0447","u0430","u043B","u043E","u0433","u043E","u0434","u0430">>,
    <<"u043D","u0430","u0447","u0430","u043B","u043E","u043C","u0435","u0441","u044F","u0446","u0430">>,
    <<"u043D","u0430","u0447","u0430","u043B","u043E","u043A","u0432","u0430","u0440","u0442","u0430","u043B","u0430">>,
    <<"u043D","u0430","u0447","u0430","u043B","u043E","u043D","u0435","u0434","u0435","u043B","u0438">>,
    <<"u043D","u0430","u0447","u0430","u043B","u043E","u0434","u043D","u044F">>,
    <<"u043D","u0430","u0447","u0430","u043B","u043E","u0447","u0430","u0441","u0430">>,
    <<"u043D","u0430","u0447","u0430","u043B","u043E","u043C","u0438","u043D","u0443","u0442","u044B">>,
    <<"u043A","u043E","u043D","u0435","u0446","u0433","u043E","u0434","u0430">>,
    <<"u043A","u043E","u043D","u0435","u0446","u043C","u0435","u0441","u044F","u0446","u0430">>,
    <<"u043A","u043E","u043D","u0435","u0446","u043A","u0432","u0430","u0440","u0442","u0430","u043B","u0430">>,
    <<"u043A","u043E","u043D","u0435","u0446","u043D","u0435","u0434","u0435","u043B","u0438">>,
    <<"u043A","u043E","u043D","u0435","u0446","u0434","u043D","u044F">>,
    <<"u043A","u043E","u043D","u0435","u0446","u0447","u0430","u0441","u0430">>,
    <<"u043A","u043E","u043D","u0435","u0446","u043C","u0438","u043D","u0443","u0442","u044B">>,
    <<"u0434","u043E","u0431","u0430","u0432","u0438","u0442","u044C","u043C","u0435","u0441","u044F","u0446">>,
    <<"u0434","u043E","u0431","u0430","u0432","u0438","u0442","u044C","u043A","u0434","u0430","u0442","u0435">>,
    <<"u0442","u0435","u043A","u0443","u0449","u0430","u044F","u0434","u0430","u0442","u0430">>,
    <<"u0442","u0435","u043A","u0443","u0449","u0430","u044F","u0434","u0430","u0442","u0430","u0441","u0435","u0430","u043D","u0441","u0430">>,
    <<"u0440","u0430","u0431","u043E","u0447","u0430","u044F","u0434","u0430","u0442","u0430">>,
    <<"u0443","u043D","u0438","u0432","u0435","u0440","u0441","u0430","u043B","u044C","u043D","u043E","u0435","u0432","u0440","u0435","u043C","u044F">>,
    <<"u0442","u0438","u043F">>,
    <<"u0442","u0438","u043F","u0437","u043D","u0447">>,
    <<"u0441","u0442","u0440","u043E","u043A","u0430">>,
    <<"u0431","u0443","u043B","u0435","u0432","u043E">>,
    <<"x","m","l","u0442","u0438","u043F">>,
    <<"x","m","l","u0442","u0438","u043F","u0437","u043D","u0447">>,
    <<"x","m","l","u0437","u043D","u0430","u0447","u0435","u043D","u0438","u0435">>,
    <<"x","m","l","u0441","u0442","u0440","u043E","u043A","u0430">>,
    <<"u0441","u043E","u043E","u0431","u0449","u0438","u0442","u044C">>,
    <<"u0432","u043E","u043F","u0440","u043E","u0441">>,
    <<"u043F","u0440","u0435","u0434","u0443","u043F","u0440","u0435","u0436","u0434","u0435","u043D","u0438","u0435">>,
    <<"u043E","u043F","u043E","u0432","u0435","u0441","u0442","u0438","u0442","u044C">>,
    <<"u043E","u043F","u043E","u0432","u0435","u0441","u0442","u0438","u0442","u044C","u043E","u0431","u0438","u0437","u043C","u0435","u043D","u0435","u043D","u0438","u0438">>,
    <<"u0443","u0441","u0442","u0430","u043D","u043E","u0432","u0438","u0442","u044C","u0437","u0430","u0433","u043E","u043B","u043E","u0432","u043E","u043A","u043A","u043B","u0438","u0435","u043D","u0442","u0441","u043A","u043E","u0433","u043E","u043F","u0440","u0438","u043B","u043E","u0436","u0435","u043D","u0438","u044F">>,
    <<"u0441","u043E","u0441","u0442","u043E","u044F","u043D","u0438","u0435">>,
    <<"u0430","u043A","u0442","u0438","u0432","u0438","u0437","u0438","u0440","u043E","u0432","u0430","u0442","u044C","u043E","u043A","u043D","u043E">>,
    <<"u0430","u043A","u0442","u0438","u0432","u043D","u043E","u0435","u043E","u043A","u043D","u043E">>,
    <<"u0432","u0432","u0435","u0441","u0442","u0438","u0434","u0430","u0442","u0443">>,
    <<"u0432","u0432","u0435","u0441","u0442","u0438","u0437","u043D","u0430","u0447","u0435","u043D","u0438","u0435">>,
    <<"u0432","u0432","u0435","u0441","u0442","u0438","u0441","u0442","u0440","u043E","u043A","u0443">>,
    <<"u0432","u0432","u0435","u0441","u0442","u0438","u0447","u0438","u0441","u043B","u043E">>,
    <<"u043F","u043E","u043A","u0430","u0437","u0430","u0442","u044C","u0432","u0432","u043E","u0434","u0434","u0430","u0442","u044B">>,
    <<"u043F","u043E","u043A","u0430","u0437","u0430","u0442","u044C","u0432","u0432","u043E","u0434","u0437","u043D","u0430","u0447","u0435","u043D","u0438","u044F">>,
    <<"u043F","u043E","u043A","u0430","u0437","u0430","u0442","u044C","u0432","u0432","u043E","u0434","u0441","u0442","u0440","u043E","u043A","u0438">>,
    <<"u043F","u043E","u043A","u0430","u0437","u0430","u0442","u044C","u0432","u0432","u043E","u0434","u0447","u0438","u0441","u043B","u0430">>,
    <<"u043F","u043E","u043A","u0430","u0437","u0430","u0442","u044C","u043F","u0440","u0435","u0434","u0443","u043F","u0440","u0435","u0436","u0434","u0435","u043D","u0438","u0435">>,
    <<"u043F","u043E","u043A","u0430","u0437","u0430","u0442","u044C","u043E","u043F","u043E","u0432","u0435","u0449","u0435","u043D","u0438","u0435","u043F","u043E","u043B","u044C","u0437","u043E","u0432","u0430","u0442","u0435","u043B","u044F">>,
    <<"u043F","u043E","u043A","u0430","u0437","u0430","u0442","u044C","u0438","u043D","u0444","u043E","u0440","u043C","u0430","u0446","u0438","u044E","u043E","u0431","u043E","u0448","u0438","u0431","u043A","u0435">>,
    <<"u043E","u0442","u043A","u0440","u044B","u0442","u044C","u0444","u043E","u0440","u043C","u0443">>,
    <<"u043E","u0442","u043A","u0440","u044B","u0442","u044C","u0437","u043D","u0430","u0447","u0435","u043D","u0438","u0435">>,
    <<"u043E","u0442","u043A","u0440","u044B","u0442","u044C","u0444","u043E","u0440","u043C","u0443","u043C","u043E","u0434","u0430","u043B","u044C","u043D","u043E">>,
    <<"u043F","u043E","u043B","u0443","u0447","u0438","u0442","u044C","u0444","u043E","u0440","u043C","u0443">>,
    <<"u043F","u043E","u043B","u0443","u0447","u0438","u0442","u044C","u043D","u0430","u0432","u0438","u0433","u0430","u0446","u0438","u043E","u043D","u043D","u0443","u044E","u0441","u0441","u044B","u043B","u043A","u0443">>,
    <<"u043E","u0442","u043A","u0440","u044B","u0442","u044C","u0441","u043F","u0440","u0430","u0432","u043A","u0443">>,
    <<"u0437","u0430","u043A","u0440","u044B","u0442","u044C","u0441","u043F","u0440","u0430","u0432","u043A","u0443">>,
    <<"u043E","u0442","u043A","u0440","u044B","u0442","u044C","u0441","u043E","u0434","u0435","u0440","u0436","u0430","u043D","u0438","u0435","u0441","u043F","u0440","u0430","u0432","u043A","u0438">>,
    <<"u043E","u0442","u043A","u0440","u044B","u0442","u044C","u0438","u043D","u0434","u0435","u043A","u0441","u0441","u043F","u0440","u0430","u0432","u043A","u0438">>,
    <<"u0441","u0438","u0433","u043D","u0430","u043B">>,
    <<"u043E","u0431","u0440","u0430","u0431","u043E","u0442","u043A","u0430","u043F","u0440","u0435","u0440","u044B","u0432","u0430","u043D","u0438","u044F","u043F","u043E","u043B","u044C","u0437","u043E","u0432","u0430","u0442","u0435","u043B","u044F">>,
    <<"u043A","u0440","u0430","u0442","u043A","u043E","u0435","u043F","u0440","u0435","u0434","u0441","u0442","u0430","u0432","u043B","u0435","u043D","u0438","u0435","u043E","u0448","u0438","u0431","u043A","u0438">>,
    <<"u043F","u043E","u0434","u0440","u043E","u0431","u043D","u043E","u0435","u043F","u0440","u0435","u0434","u0441","u0442","u0430","u0432","u043B","u0435","u043D","u0438","u0435","u043E","u0448","u0438","u0431","u043A","u0438">>,
    <<"u043E","u043F","u0438","u0441","u0430","u0442","u044C","u043E","u0448","u0438","u0431","u043A","u0443">>,
    <<"u043D","u043E","u0432","u044B","u0439">>,
    <<"u0437","u043D","u0430","u0447","u0435","u043D","u0438","u0435">>,
    <<"u0437","u043D","u0430","u0447","u0435","u043D","u0438","u0435","u0437","u0430","u043F","u043E","u043B","u043D","u0435","u043D","u043E">>,
    <<"u0437","u0430","u043F","u043E","u043B","u043D","u0438","u0442","u044C","u0437","u043D","u0430","u0447","u0435","u043D","u0438","u044F","u0441","u0432","u043E","u0439","u0441","u0442","u0432">>,
    <<"u0441","u043A","u043E","u043F","u0438","u0440","u043E","u0432","u0430","u0442","u044C","u0437","u043D","u0430","u0447","u0435","u043D","u0438","u044F">>,
    <<"u0437","u043D","u0430","u0447","u0435","u043D","u0438","u0435","u0432","u0441","u0442","u0440","u043E","u043A","u0443","u0432","u043D","u0443","u0442","u0440">>,
    <<"u0437","u043D","u0430","u0447","u0435","u043D","u0438","u0435","u0438","u0437","u0441","u0442","u0440","u043E","u043A","u0438","u0432","u043D","u0443","u0442","u0440">>,
    <<"u0437","u043D","u0430","u0447","u0435","u043D","u0438","u0435","u0432","u0444","u0430","u0439","u043B">>,
    <<"u0437","u043D","u0430","u0447","u0435","u043D","u0438","u0435","u0438","u0437","u0444","u0430","u0439","u043B","u0430">>,
    <<"u0432","u043E","u0441","u0441","u0442","u0430","u043D","u043E","u0432","u0438","u0442","u044C","u0437","u043D","u0430","u0447","u0435","u043D","u0438","u0435">>,
    <<"u0441","u043E","u0445","u0440","u0430","u043D","u0438","u0442","u044C","u0437","u043D","u0430","u0447","u0435","u043D","u0438","u0435">>,
    <<"u043E","u0447","u0438","u0441","u0442","u0438","u0442","u044C","u043D","u0430","u0441","u0442","u0440","u043E","u0439","u043A","u0438","u043F","u043E","u043B","u044C","u0437","u043E","u0432","u0430","u0442","u0435","u043B","u044F">>,
    <<"u0443","u0434","u0430","u043B","u0438","u0442","u044C","u043D","u0430","u0441","u0442","u0440","u043E","u0439","u043A","u0438","u043F","u043E","u043B","u044C","u0437","u043E","u0432","u0430","u0442","u0435","u043B","u044F">>,
    <<"u043F","u0440","u043E","u0447","u0438","u0442","u0430","u0442","u044C","j","s","o","n">>,
    <<"u0437","u0430","u043F","u0438","u0441","u0430","u0442","u044C","j","s","o","n">>,
    <<"x","d","t","o","u0441","u0435","u0440","u0438","u0430","u043B","u0438","u0437","u0430","u0442","u043E","u0440">>,
    <<"x","d","t","o","u0444","u0430","u0431","u0440","u0438","u043A","u0430">>,
    <<"u043F","u0440","u043E","u0447","u0438","u0442","u0430","u0442","u044C","x","m","l">>,
    <<"u0437","u0430","u043F","u0438","u0441","u0430","u0442","u044C","x","m","l">>,
    <<"u0432","u043E","u0437","u043C","u043E","u0436","u043D","u043E","u0441","u0442","u044C","u0447","u0442","u0435","u043D","u0438","u044F","x","m","l">>,
    <<"u043D","u0430","u0439","u0442","u0438","u043D","u0435","u0434","u043E","u043F","u0443","u0441","u0442","u0438","u043C","u044B","u0435","u0441","u0438","u043C","u0432","u043E","u043B","u044B","x","m","l">>,
    <<"u043F","u043E","u043B","u0443","u0447","u0438","u0442","u044C","x","m","l","u0442","u0438","u043F">>,
    <<"u0438","u0437","x","m","l","u0442","u0438","u043F","u0430">>,
    <<"u0438","u043C","u043F","u043E","u0440","u0442","u043C","u043E","u0434","u0435","u043B","u0438","x","d","t","o">>,
    <<"u0441","u043E","u0437","u0434","u0430","u0442","u044C","u0444","u0430","u0431","u0440","u0438","u043A","u0443","x","d","t","o">>,
    <<"u043E","u0431","u044A","u0435","u0434","u0438","u043D","u0438","u0442","u044C","u043F","u0443","u0442","u0438">>,
    <<"u0440","u0430","u0437","u044A","u0435","u0434","u0438","u043D","u0438","u0442","u044C","u043F","u0443","u0442","u0438">>,
    <<"u043A","u0430","u0442","u0430","u043B","u043E","u0433","u0432","u0440","u0435","u043C","u0435","u043D","u043D","u044B","u0445","u0444","u0430","u0439","u043B","u043E","u0432">>,
    <<"u043A","u0430","u0442","u0430","u043B","u043E","u0433","u0434","u043E","u043A","u0443","u043C","u0435","u043D","u0442","u043E","u0432">>,
    <<"u043A","u0430","u0442","u0430","u043B","u043E","u0433","u043F","u0440","u043E","u0433","u0440","u0430","u043C","u043C","u044B">>,
    <<"u043F","u043E","u043B","u0443","u0447","u0438","u0442","u044C","u0438","u043C","u044F","u0432","u0440","u0435","u043C","u0435","u043D","u043D","u043E","u0433","u043E","u0444","u0430","u0439","u043B","u0430">>,
    <<"u0440","u0430","u0437","u0434","u0435","u043B","u0438","u0442","u044C","u0444","u0430","u0439","u043B">>,
    <<"u043E","u0431","u044A","u0435","u0434","u0438","u043D","u0438","u0442","u044C","u0444","u0430","u0439","u043B","u044B">>,
    <<"u0444","u0430","u0439","u043B","u0441","u0443","u0449","u0435","u0441","u0442","u0432","u0443","u0435","u0442">>,
    <<"u043D","u0430","u0439","u0442","u0438","u0444","u0430","u0439","u043B","u044B">>,
    <<"u043A","u043E","u043F","u0438","u0440","u043E","u0432","u0430","u0442","u044C","u0444","u0430","u0439","u043B">>,
    <<"u043F","u0435","u0440","u0435","u043C","u0435","u0441","u0442","u0438","u0442","u044C","u0444","u0430","u0439","u043B">>,
    <<"u0443","u0434","u0430","u043B","u0438","u0442","u044C","u0444","u0430","u0439","u043B","u044B">>,
    <<"u0441","u043E","u0437","u0434","u0430","u0442","u044C","u043A","u0430","u0442","u0430","u043B","u043E","u0433">>,
    <<"u043F","u043E","u043B","u0443","u0447","u0438","u0442","u044C","u0444","u0430","u0439","u043B">>,
    <<"u043F","u043E","u043B","u0443","u0447","u0438","u0442","u044C","u0444","u0430","u0439","u043B","u044B">>,
    <<"u043F","u043E","u043C","u0435","u0441","u0442","u0438","u0442","u044C","u0444","u0430","u0439","u043B">>,
    <<"u043F","u043E","u043C","u0435","u0441","u0442","u0438","u0442","u044C","u0444","u0430","u0439","u043B","u044B">>,
    <<"u043F","u043E","u043B","u0443","u0447","u0438","u0442","u044C","u0438","u0437","u0432","u0440","u0435","u043C","u0435","u043D","u043D","u043E","u0433","u043E","u0445","u0440","u0430","u043D","u0438","u043B","u0438","u0449","u0430">>,
    <<"u043F","u043E","u043C","u0435","u0441","u0442","u0438","u0442","u044C","u0432","u043E","u0432","u0440","u0435","u043C","u0435","u043D","u043D","u043E","u0435","u0445","u0440","u0430","u043D","u0438","u043B","u0438","u0449","u0435">>,
    <<"u044D","u0442","u043E","u0430","u0434","u0440","u0435","u0441","u0432","u0440","u0435","u043C","u0435","u043D","u043D","u043E","u0433","u043E","u0445","u0440","u0430","u043D","u0438","u043B","u0438","u0449","u0430">>,
    <<"u043F","u043E","u043B","u0443","u0447","u0438","u0442","u044C","u0432","u0440","u0435","u043C","u0435","u043D","u043D","u043E","u0435","u0445","u0440","u0430","u043D","u0438","u043B","u0438","u0449","u0435">>,
    <<"u043F","u043E","u0434","u043A","u043B","u044E","u0447","u0438","u0442","u044C","u0440","u0430","u0441","u0448","u0438","u0440","u0435","u043D","u0438","u0435","u0440","u0430","u0431","u043E","u0442","u044B","u0441","u0444","u0430","u0439","u043B","u0430","u043C","u0438">>,
    <<"u0443","u0441","u0442","u0430","u043D","u043E","u0432","u0438","u0442","u044C","u0440","u0430","u0441","u0448","u0438","u0440","u0435","u043D","u0438","u0435","u0440","u0430","u0431","u043E","u0442","u044B","u0441","u0444","u0430","u0439","u043B","u0430","u043C","u0438">>,
    <<"u0437","u0430","u043F","u0440","u043E","u0441","u0438","u0442","u044C","u0440","u0430","u0437","u0440","u0435","u0448","u0435","u043D","u0438","u0435","u043F","u043E","u043B","u044C","u0437","u043E","u0432","u0430","u0442","u0435","u043B","u044F">>,
    <<"u043D","u0430","u0447","u0430","u043B","u043E","u0442","u0440","u0430","u043D","u0437","u0430","u043A","u0446","u0438","u0438">>,
    <<"u0437","u0430","u0444","u0438","u043A","u0441","u0438","u0440","u043E","u0432","u0430","u0442","u044C","u0442","u0440","u0430","u043D","u0437","u0430","u043A","u0446","u0438","u044E">>,
    <<"u043E","u0442","u043C","u0435","u043D","u0438","u0442","u044C","u0442","u0440","u0430","u043D","u0437","u0430","u043A","u0446","u0438","u044E">>,
    <<"u0437","u0430","u0431","u043B","u043E","u043A","u0438","u0440","u043E","u0432","u0430","u0442","u044C","u0434","u0430","u043D","u043D","u044B","u0435","u0434","u043B","u044F","u0440","u0435","u0434","u0430","u043A","u0442","u0438","u0440","u043E","u0432","u0430","u043D","u0438","u044F">>,
    <<"u0440","u0430","u0437","u0431","u043B","u043E","u043A","u0438","u0440","u043E","u0432","u0430","u0442","u044C","u0434","u0430","u043D","u043D","u044B","u0435","u0434","u043B","u044F","u0440","u0435","u0434","u0430","u043A","u0442","u0438","u0440","u043E","u0432","u0430","u043D","u0438","u044F">>,
    <<"u043F","u043E","u043B","u0443","u0447","u0438","u0442","u044C","u0431","u043B","u043E","u043A","u0438","u0440","u043E","u0432","u043A","u0443","u0441","u0435","u0430","u043D","u0441","u043E","u0432">>,
    <<"u0443","u0441","u0442","u0430","u043D","u043E","u0432","u0438","u0442","u044C","u0431","u043B","u043E","u043A","u0438","u0440","u043E","u0432","u043A","u0443","u0441","u0435","u0430","u043D","u0441","u043E","u0432">>,
    <<"u043F","u043E","u043B","u0443","u0447","u0438","u0442","u044C","u0432","u0440","u0435","u043C","u044F","u043E","u0436","u0438","u0434","u0430","u043D","u0438","u044F","u0431","u043B","u043E","u043A","u0438","u0440","u043E","u0432","u043A","u0438","u0434","u0430","u043D","u043D","u044B","u0445">>,
    <<"u0443","u0441","u0442","u0430","u043D","u043E","u0432","u0438","u0442","u044C","u0432","u0440","u0435","u043C","u044F","u043E","u0436","u0438","u0434","u0430","u043D","u0438","u044F","u0431","u043B","u043E","u043A","u0438","u0440","u043E","u0432","u043A","u0438","u0434","u0430","u043D","u043D","u044B","u0445">>,
    <<"u0443","u0441","u0442","u0430","u043D","u043E","u0432","u0438","u0442","u044C","u043C","u043E","u043D","u043E","u043F","u043E","u043B","u044C","u043D","u044B","u0439","u0440","u0435","u0436","u0438","u043C">>,
    <<"u043C","u043E","u043D","u043E","u043F","u043E","u043B","u044C","u043D","u044B","u0439","u0440","u0435","u0436","u0438","u043C">>,
    <<"u0443","u0441","u0442","u0430","u043D","u043E","u0432","u0438","u0442","u044C","u043F","u0440","u0438","u0432","u0438","u043B","u0435","u0433","u0438","u0440","u043E","u0432","u0430","u043D","u043D","u044B","u0439","u0440","u0435","u0436","u0438","u043C">>,
    <<"u043F","u0440","u0438","u0432","u0438","u043B","u0435","u0433","u0438","u0440","u043E","u0432","u0430","u043D","u043D","u044B","u0439","u0440","u0435","u0436","u0438","u043C">>,
    <<"u043F","u043E","u043B","u044C","u0437","u043E","u0432","u0430","u0442","u0435","u043B","u0438","u0438","u043D","u0444","u043E","u0440","u043C","u0430","u0446","u0438","u043E","u043D","u043D","u043E","u0439","u0431","u0430","u0437","u044B">>,
    <<"u0440","u043E","u043B","u044C","u0434","u043E","u0441","u0442","u0443","u043F","u043D","u0430">>,
    <<"u043F","u0440","u0430","u0432","u043E","u0434","u043E","u0441","u0442","u0443","u043F","u0430">>,
    <<"u0431","u0435","u0437","u043E","u043F","u0430","u0441","u043D","u044B","u0439","u0440","u0435","u0436","u0438","u043C">>,
    <<"u0443","u0441","u0442","u0430","u043D","u043E","u0432","u0438","u0442","u044C","u0431","u0435","u0437","u043E","u043F","u0430","u0441","u043D","u044B","u0439","u0440","u0435","u0436","u0438","u043C">>,
    <<"u043A","u043E","u0434","u043B","u043E","u043A","u0430","u043B","u0438","u0437","u0430","u0446","u0438","u0438","u0438","u043D","u0444","u043E","u0440","u043C","u0430","u0446","u0438","u043E","u043D","u043D","u043E","u0439","u0431","u0430","u0437","u044B">>,
    <<"u043A","u043E","u043D","u0444","u0438","u0433","u0443","u0440","u0430","u0446","u0438","u044F","u0438","u0437","u043C","u0435","u043D","u0435","u043D","u0430">>,
    <<"u043A","u043E","u043D","u0444","u0438","u0433","u0443","u0440","u0430","u0446","u0438","u044F","u0431","u0430","u0437","u044B","u0434","u0430","u043D","u043D","u044B","u0445","u0438","u0437","u043C","u0435","u043D","u0435","u043D","u0430","u0434","u0438","u043D","u0430","u043C","u0438","u0447","u0435","u0441","u043A","u0438">>,
    <<"u043D","u0435","u043E","u0431","u0445","u043E","u0434","u0438","u043C","u043E","u0441","u0442","u044C","u0437","u0430","u0432","u0435","u0440","u0448","u0435","u043D","u0438","u044F","u0441","u043E","u0435","u0434","u0438","u043D","u0435","u043D","u0438","u044F">>,
    <<"u043D","u043E","u043C","u0435","u0440","u0441","u0435","u0430","u043D","u0441","u0430","u0438","u043D","u0444","u043E","u0440","u043C","u0430","u0446","u0438","u043E","u043D","u043D","u043E","u0439","u0431","u0430","u0437","u044B">>,
    <<"u043D","u043E","u043C","u0435","u0440","u0441","u043E","u0435","u0434","u0438","u043D","u0435","u043D","u0438","u044F","u0438","u043D","u0444","u043E","u0440","u043C","u0430","u0446","u0438","u043E","u043D","u043D","u043E","u0439","u0431","u0430","u0437","u044B">>,
    <<"u043E","u0431","u043D","u043E","u0432","u0438","u0442","u044C","u043D","u0443","u043C","u0435","u0440","u0430","u0446","u0438","u044E","u043E","u0431","u044A","u0435","u043A","u0442","u043E","u0432">>,
    <<"u043E","u0431","u043D","u043E","u0432","u0438","u0442","u044C","u043F","u043E","u0432","u0442","u043E","u0440","u043D","u043E","u0438","u0441","u043F","u043E","u043B","u044C","u0437","u0443","u0435","u043C","u044B","u0435","u0437","u043D","u0430","u0447","u0435","u043D","u0438","u044F">>,
    <<"u043F","u043E","u043B","u0443","u0447","u0438","u0442","u044C","u0441","u0435","u0430","u043D","u0441","u044B","u0438","u043D","u0444","u043E","u0440","u043C","u0430","u0446","u0438","u043E","u043D","u043D","u043E","u0439","u0431","u0430","u0437","u044B">>,
    <<"u043F","u043E","u043B","u0443","u0447","u0438","u0442","u044C","u0441","u043E","u0435","u0434","u0438","u043D","u0435","u043D","u0438","u044F","u0438","u043D","u0444","u043E","u0440","u043C","u0430","u0446","u0438","u043E","u043D","u043D","u043E","u0439","u0431","u0430","u0437","u044B">>,
    <<"u043F","u043E","u043B","u0443","u0447","u0438","u0442","u044C","u0447","u0430","u0441","u043E","u0432","u043E","u0439","u043F","u043E","u044F","u0441","u0438","u043D","u0444","u043E","u0440","u043C","u0430","u0446","u0438","u043E","u043D","u043D","u043E","u0439","u0431","u0430","u0437","u044B">>,
    <<"u0443","u0441","u0442","u0430","u043D","u043E","u0432","u0438","u0442","u044C","u0447","u0430","u0441","u043E","u0432","u043E","u0439","u043F","u043E","u044F","u0441","u0438","u043D","u0444","u043E","u0440","u043C","u0430","u0446","u0438","u043E","u043D","u043D","u043E","u0439","u0431","u0430","u0437","u044B">>,
    <<"u043F","u043E","u043B","u0443","u0447","u0438","u0442","u044C","u043C","u0438","u043D","u0438","u043C","u0430","u043B","u044C","u043D","u0443","u044E","u0434","u043B","u0438","u043D","u0443","u043F","u0430","u0440","u043E","u043B","u0435","u0439","u043F","u043E","u043B","u044C","u0437","u043E","u0432","u0430","u0442","u0435","u043B","u0435","u0439">>,
    <<"u0443","u0441","u0442","u0430","u043D","u043E","u0432","u0438","u0442","u044C","u043C","u0438","u043D","u0438","u043C","u0430","u043B","u044C","u043D","u0443","u044E","u0434","u043B","u0438","u043D","u0443","u043F","u0430","u0440","u043E","u043B","u0435","u0439","u043F","u043E","u043B","u044C","u0437","u043E","u0432","u0430","u0442","u0435","u043B","u0435","u0439">>,
    <<"u043F","u043E","u043B","u0443","u0447","u0438","u0442","u044C","u043F","u0440","u043E","u0432","u0435","u0440","u043A","u0443","u0441","u043B","u043E","u0436","u043D","u043E","u0441","u0442","u0438","u043F","u0430","u0440","u043E","u043B","u0435","u0439","u043F","u043E","u043B","u044C","u0437","u043E","u0432","u0430","u0442","u0435","u043B","u0435","u0439">>,
    <<"u0443","u0441","u0442","u0430","u043D","u043E","u0432","u0438","u0442","u044C","u043F","u0440","u043E","u0432","u0435","u0440","u043A","u0443","u0441","u043B","u043E","u0436","u043D","u043E","u0441","u0442","u0438","u043F","u0430","u0440","u043E","u043B","u0435","u0439","u043F","u043E","u043B","u044C","u0437","u043E","u0432","u0430","u0442","u0435","u043B","u0435","u0439">>,
    <<"u043F","u043E","u043B","u0443","u0447","u0438","u0442","u044C","u043E","u043F","u0435","u0440","u0430","u0442","u0438","u0432","u043D","u0443","u044E","u043E","u0442","u043C","u0435","u0442","u043A","u0443","u0432","u0440","u0435","u043C","u0435","u043D","u0438">>,
    <<"u043F","u043E","u043B","u0443","u0447","u0438","u0442","u044C","u0434","u0430","u043D","u043D","u044B","u0435","u0432","u044B","u0431","u043E","u0440","u0430">>,
    <<"u0440","u0430","u0437","u043E","u0440","u0432","u0430","u0442","u044C","u0441","u043E","u0435","u0434","u0438","u043D","u0435","u043D","u0438","u0435","u0441","u0432","u043D","u0435","u0448","u043D","u0438","u043C","u0438","u0441","u0442","u043E","u0447","u043D","u0438","u043A","u043E","u043C","u0434","u0430","u043D","u043D","u044B","u0445">>,
    <<"u0443","u0441","u0442","u0430","u043D","u043E","u0432","u0438","u0442","u044C","u0441","u043E","u0435","u0434","u0438","u043D","u0435","u043D","u0438","u0435","u0441","u0432","u043D","u0435","u0448","u043D","u0438","u043C","u0438","u0441","u0442","u043E","u0447","u043D","u0438","u043A","u043E","u043C","u0434","u0430","u043D","u043D","u044B","u0445">>,
    <<"u0443","u0434","u0430","u043B","u0438","u0442","u044C","u0438","u0437","u0432","u0440","u0435","u043C","u0435","u043D","u043D","u043E","u0433","u043E","u0445","u0440","u0430","u043D","u0438","u043B","u0438","u0449","u0430">>,
    <<"u0432","u044B","u0433","u0440","u0443","u0437","u0438","u0442","u044C","u0436","u0443","u0440","u043D","u0430","u043B","u0440","u0435","u0433","u0438","u0441","u0442","u0440","u0430","u0446","u0438","u0438">>,
    <<"u043F","u043E","u043B","u0443","u0447","u0438","u0442","u044C","u0437","u043D","u0430","u0447","u0435","u043D","u0438","u044F","u043E","u0442","u0431","u043E","u0440","u0430","u0436","u0443","u0440","u043D","u0430","u043B","u0430","u0440","u0435","u0433","u0438","u0441","u0442","u0440","u0430","u0446","u0438","u0438">>,
    <<"u043F","u043E","u043B","u0443","u0447","u0438","u0442","u044C","u0438","u0441","u043F","u043E","u043B","u044C","u0437","u043E","u0432","u0430","u043D","u0438","u0435","u0436","u0443","u0440","u043D","u0430","u043B","u0430","u0440","u0435","u0433","u0438","u0441","u0442","u0440","u0430","u0446","u0438","u0438">>,
    <<"u043F","u043E","u043B","u0443","u0447","u0438","u0442","u044C","u0438","u0441","u043F","u043E","u043B","u044C","u0437","u043E","u0432","u0430","u043D","u0438","u0435","u0441","u043E","u0431","u044B","u0442","u0438","u044F","u0436","u0443","u0440","u043D","u0430","u043B","u0430","u0440","u0435","u0433","u0438","u0441","u0442","u0440","u0430","u0446","u0438","u0438">>,
    <<"u043F","u0440","u0435","u0434","u0441","u0442","u0430","u0432","u043B","u0435","u043D","u0438","u0435","u0441","u043E","u0431","u044B","u0442","u0438","u044F","u0436","u0443","u0440","u043D","u0430","u043B","u0430","u0440","u0435","u0433","u0438","u0441","u0442","u0440","u0430","u0446","u0438","u0438">>,
    <<"u0443","u0441","u0442","u0430","u043D","u043E","u0432","u0438","u0442","u044C","u0438","u0441","u043F","u043E","u043B","u044C","u0437","u043E","u0432","u0430","u043D","u0438","u0435","u0436","u0443","u0440","u043D","u0430","u043B","u0430","u0440","u0435","u0433","u0438","u0441","u0442","u0440","u0430","u0446","u0438","u0438">>,
    <<"u0443","u0441","u0442","u0430","u043D","u043E","u0432","u0438","u0442","u044C","u0438","u0441","u043F","u043E","u043B","u044C","u0437","u043E","u0432","u0430","u043D","u0438","u0435","u0441","u043E","u0431","u044B","u0442","u0438","u044F","u0436","u0443","u0440","u043D","u0430","u043B","u0430","u0440","u0435","u0433","u0438","u0441","u0442","u0440","u0430","u0446","u0438","u0438">>,
    <<"u0437","u0430","u043F","u0438","u0441","u0430","u0442","u044C","u0432","u0431","u0435","u0437","u043E","u043F","u0430","u0441","u043D","u043E","u0435","u0445","u0440","u0430","u043D","u0438","u043B","u0438","u0449","u0435">>,
    <<"u043F","u0440","u043E","u0447","u0438","u0442","u0430","u0442","u044C","u0438","u0437","u0431","u0435","u0437","u043E","u043F","u0430","u0441","u043D","u043E","u0433","u043E","u0445","u0440","u0430","u043D","u0438","u043B","u0438","u0449","u0430">>,
    <<"u0443","u0434","u0430","u043B","u0438","u0442","u044C","u0438","u0437","u0431","u0435","u0437","u043E","u043F","u0430","u0441","u043D","u043E","u0433","u043E","u0445","u0440","u0430","u043D","u0438","u043B","u0438","u0449","u0430">>,
    <<"u0437","u0430","u043F","u0443","u0441","u0442","u0438","u0442","u044C","u043F","u0440","u0438","u043B","u043E","u0436","u0435","u043D","u0438","u0435">>,
    <<"u043A","u043E","u043C","u0430","u043D","u0434","u0430","u0441","u0438","u0441","u0442","u0435","u043C","u044B">>,
    <<"u043F","u043E","u043B","u0443","u0447","u0438","u0442","u044C","c","o","m","u043E","u0431","u044A","u0435","u043A","u0442">>,
    <<"u043F","u043E","u043B","u044C","u0437","u043E","u0432","u0430","u0442","u0435","u043B","u044C","u043E","u0441">>,
    <<"u0434","u0430","u043D","u043D","u044B","u0435","u0444","u043E","u0440","u043C","u044B","u0432","u0437","u043D","u0430","u0447","u0435","u043D","u0438","u0435">>,
    <<"u0437","u043D","u0430","u0447","u0435","u043D","u0438","u0435","u0432","u0434","u0430","u043D","u043D","u044B","u0435","u0444","u043E","u0440","u043C","u044B">>,
    <<"u043A","u043E","u043F","u0438","u0440","u043E","u0432","u0430","u0442","u044C","u0434","u0430","u043D","u043D","u044B","u0435","u0444","u043E","u0440","u043C","u044B">>,
    <<"u043F","u043E","u043B","u0443","u0447","u0438","u0442","u044C","u0441","u043E","u043E","u0442","u0432","u0435","u0442","u0441","u0442","u0432","u0438","u0435","u043E","u0431","u044A","u0435","u043A","u0442","u0430","u0438","u0444","u043E","u0440","u043C","u044B">>,
    <<"u0443","u0441","u0442","u0430","u043D","u043E","u0432","u0438","u0442","u044C","u0441","u043E","u043E","u0442","u0432","u0435","u0442","u0441","u0442","u0432","u0438","u0435","u043E","u0431","u044A","u0435","u043A","u0442","u0430","u0438","u0444","u043E","u0440","u043C","u044B">>,
    <<"u043E","u0431","u043D","u043E","u0432","u0438","u0442","u044C","u0438","u043D","u0442","u0435","u0440","u0444","u0435","u0439","u0441">>,
    <<"u043F","u043E","u043B","u0443","u0447","u0438","u0442","u044C","u0444","u0443","u043D","u043A","u0446","u0438","u043E","u043D","u0430","u043B","u044C","u043D","u0443","u044E","u043E","u043F","u0446","u0438","u044E">>,
    <<"u043F","u043E","u043B","u0443","u0447","u0438","u0442","u044C","u0444","u0443","u043D","u043A","u0446","u0438","u043E","u043D","u0430","u043B","u044C","u043D","u0443","u044E","u043E","u043F","u0446","u0438","u044E","u0438","u043D","u0442","u0435","u0440","u0444","u0435","u0439","u0441","u0430">>,
    <<"u043F","u043E","u043B","u0443","u0447","u0438","u0442","u044C","u043F","u0430","u0440","u0430","u043C","u0435","u0442","u0440","u0444","u0443","u043D","u043A","u0446","u0438","u043E","u043D","u0430","u043B","u044C","u043D","u044B","u0445","u043E","u043F","u0446","u0438","u0439","u0438","u043D","u0442","u0435","u0440","u0444","u0435","u0439","u0441","u0430">>,
    <<"u0443","u0441","u0442","u0430","u043D","u043E","u0432","u0438","u0442","u044C","u043F","u0430","u0440","u0430","u043C","u0435","u0442","u0440","u044B","u0444","u0443","u043D","u043A","u0446","u0438","u043E","u043D","u0430","u043B","u044C","u043D","u044B","u0445","u043E","u043F","u0446","u0438","u0439","u0438","u043D","u0442","u0435","u0440","u0444","u0435","u0439","u0441","u0430">>,
    <<"u0432","u044B","u043F","u043E","u043B","u043D","u0438","u0442","u044C","u043F","u0440","u043E","u0432","u0435","u0440","u043A","u0443","u043F","u0440","u0430","u0432","u0434","u043E","u0441","u0442","u0443","u043F","u0430">>,
    <<"u0437","u0430","u0431","u043B","u043E","u043A","u0438","u0440","u043E","u0432","u0430","u0442","u044C","u0440","u0430","u0431","u043E","u0442","u0443","u043F","u043E","u043B","u044C","u0437","u043E","u0432","u0430","u0442","u0435","u043B","u044F">>,
    <<"u0437","u0430","u043F","u0443","u0441","u0442","u0438","u0442","u044C","u0441","u0438","u0441","u0442","u0435","u043C","u0443">>,
    <<"u043E","u0442","u043A","u043B","u044E","u0447","u0438","u0442","u044C","u043E","u0431","u0440","u0430","u0431","u043E","u0442","u0447","u0438","u043A","u043E","u0436","u0438","u0434","u0430","u043D","u0438","u044F">>,
    <<"u043E","u0442","u043A","u043B","u044E","u0447","u0438","u0442","u044C","u043E","u0431","u0440","u0430","u0431","u043E","u0442","u0447","u0438","u043A","u043E","u043F","u043E","u0432","u0435","u0449","u0435","u043D","u0438","u044F">>,
    <<"u043F","u043E","u0434","u043A","u043B","u044E","u0447","u0438","u0442","u044C","u043E","u0431","u0440","u0430","u0431","u043E","u0442","u0447","u0438","u043A","u043E","u0436","u0438","u0434","u0430","u043D","u0438","u044F">>,
    <<"u043F","u043E","u0434","u043A","u043B","u044E","u0447","u0438","u0442","u044C","u043E","u0431","u0440","u0430","u0431","u043E","u0442","u0447","u0438","u043A","u043E","u043F","u043E","u0432","u0435","u0449","u0435","u043D","u0438","u044F">>,
    <<"u043F","u0430","u0440","u0430","u043C","u0435","u0442","u0440","u0434","u043E","u0441","u0442","u0443","u043F","u0430">>,
    <<"u043F","u043E","u043B","u043D","u043E","u0435","u0438","u043C","u044F","u043F","u043E","u043B","u044C","u0437","u043E","u0432","u0430","u0442","u0435","u043B","u044F">>,
    <<"u043F","u043E","u043B","u0443","u0447","u0438","u0442","u044C","u0441","u043A","u043E","u0440","u043E","u0441","u0442","u044C","u043A","u043B","u0438","u0435","u043D","u0442","u0441","u043A","u043E","u0433","u043E","u0441","u043E","u0435","u0434","u0438","u043D","u0435","u043D","u0438","u044F">>,
    <<"u043F","u043E","u043B","u0443","u0447","u0438","u0442","u044C","u0441","u043E","u043E","u0431","u0449","u0435","u043D","u0438","u044F","u043F","u043E","u043B","u044C","u0437","u043E","u0432","u0430","u0442","u0435","u043B","u044E">>,
    <<"u043F","u0440","u0435","u0434","u0441","u0442","u0430","u0432","u043B","u0435","u043D","u0438","u0435","u043F","u0440","u0438","u0432","u0430">>,
    <<"u043F","u0440","u0435","u0434","u0441","u0442","u0430","u0432","u043B","u0435","u043D","u0438","u0435","u043F","u0440","u0438","u043B","u043E","u0436","u0435","u043D","u0438","u044F">>,
    <<"u043F","u0440","u0435","u043A","u0440","u0430","u0442","u0438","u0442","u044C","u0440","u0430","u0431","u043E","u0442","u0443","u0441","u0438","u0441","u0442","u0435","u043C","u044B">>,
    <<"u0441","u0442","u0440","u043E","u043A","u0430","u0441","u043E","u0435","u0434","u0438","u043D","u0435","u043D","u0438","u044F","u0438","u043D","u0444","u043E","u0440","u043C","u0430","u0446","u0438","u043E","u043D","u043D","u043E","u0439","u0431","u0430","u0437","u044B">>,
    <<"u0442","u0435","u043A","u0443","u0449","u0438","u0439","u043A","u043E","u0434","u043B","u043E","u043A","u0430","u043B","u0438","u0437","u0430","u0446","u0438","u0438">>,
    <<"u0442","u0435","u043A","u0443","u0449","u0438","u0439","u0440","u0435","u0436","u0438","u043C","u0437","u0430","u043F","u0443","u0441","u043A","u0430">>,
    <<"u0442","u0435","u043A","u0443","u0449","u0438","u0439","u044F","u0437","u044B","u043A">>,
    <<"u0443","u0441","u0442","u0430","u043D","u043E","u0432","u0438","u0442","u044C","u0447","u0430","u0441","u043E","u0432","u043E","u0439","u043F","u043E","u044F","u0441","u0441","u0435","u0430","u043D","u0441","u0430">>,
    <<"u0447","u0430","u0441","u043E","u0432","u043E","u0439","u043F","u043E","u044F","u0441","u0441","u0435","u0430","u043D","u0441","u0430">>,
    <<"u0432","u044B","u0447","u0438","u0441","u043B","u0438","u0442","u044C">>,
    <<"u0432","u044B","u043F","u043E","u043B","u043D","u0438","u0442","u044C">>,
    <<"e","v","a","l">>,
    <<"u0441","u043F","u044F","u0449","u0438","u0439","u0440","u0435","u0436","u0438","u043C">>,
    <<"u0437","u0430","u0432","u0435","u0440","u0448","u0438","u0442","u044C","u0440","u0430","u0431","u043E","u0442","u0443","u0441","u0438","u0441","u0442","u0435","u043C","u044B">>,
    <<"u0438","u043C","u044F","u043A","u043E","u043C","u043F","u044C","u044E","u0442","u0435","u0440","u0430">>,
    <<"u0438","u043C","u044F","u043F","u043E","u043B","u044C","u0437","u043E","u0432","u0430","u0442","u0435","u043B","u044F">>,
    <<"b","a","s","e","6","4","u0437","u043D","u0430","u0447","u0435","u043D","u0438","u0435">>,
    <<"b","a","s","e","6","4","u0441","u0442","u0440","u043E","u043A","u0430">>,
    <<"u043F","u043E","u043B","u0443","u0447","u0438","u0442","u044C","u043E","u0431","u0449","u0438","u0439","u043C","u0430","u043A","u0435","u0442">>,
    <<"u043F","u043E","u043B","u0443","u0447","u0438","u0442","u044C","u043E","u0431","u0449","u0443","u044E","u0444","u043E","u0440","u043C","u0443">>,
    <<"u043F","u043E","u043B","u0443","u0447","u0438","u0442","u044C","u043F","u043E","u043B","u043D","u043E","u0435","u0438","u043C","u044F","u043F","u0440","u0435","u0434","u043E","u043F","u0440","u0435","u0434","u0435","u043B","u0435","u043D","u043D","u043E","u0433","u043E","u0437","u043D","u0430","u0447","u0435","u043D","u0438","u044F">>,
    <<"u043F","u0440","u0435","u0434","u043E","u043F","u0440","u0435","u0434","u0435","u043B","u0435","u043D","u043D","u043E","u0435","u0437","u043D","u0430","u0447","u0435","u043D","u0438","u0435">>,
    <<"u0443","u0441","u0442","u0430","u043D","u043E","u0432","u0438","u0442","u044C","u0432","u043D","u0435","u0448","u043D","u044E","u044E","u043A","u043E","u043C","u043F","u043E","u043D","u0435","u043D","u0442","u0443">>,
    <<"u043F","u043E","u0434","u043A","u043B","u044E","u0447","u0438","u0442","u044C","u0432","u043D","u0435","u0448","u043D","u044E","u044E","u043A","u043E","u043C","u043F","u043E","u043D","u0435","u043D","u0442","u0443">>,
    <<"u043D","u0430","u0439","u0442","u0438","u043F","u043E","u043C","u0435","u0447","u0435","u043D","u043D","u044B","u0435","u043D","u0430","u0443","u0434","u0430","u043B","u0435","u043D","u0438","u0435">>,
    <<"u043D","u0430","u0439","u0442","u0438","u0441","u0441","u044B","u043B","u043A","u0438">>,
    <<"u043F","u0435","u0440","u0438","u043E","u0434","u0441","u0442","u0440","u043E","u043A","u0438">>,
    <<"u0432","u044B","u043F","u043E","u043B","u043D","u0438","u0442","u044C","u043E","u0431","u0440","u0430","u0431","u043E","u0442","u043A","u0443","u0437","u0430","u0434","u0430","u043D","u0438","u0439">>,
    <<"u0438","u043D","u0444","u043E","u0440","u043C","u0430","u0446","u0438","u044F","u043E","u0431","u043E","u0448","u0438","u0431","u043A","u0435">>,
    <<"u043E","u043F","u0438","u0441","u0430","u043D","u0438","u0435","u043E","u0448","u0438","u0431","u043A","u0438">>,
    <<"u043C","u0435","u0441","u0442","u043D","u043E","u0435","u0432","u0440","u0435","u043C","u044F">>,
    <<"u0442","u0435","u043A","u0443","u0449","u0430","u044F","u0443","u043D","u0438","u0432","u0435","u0440","u0441","u0430","u043B","u044C","u043D","u0430","u044F","u0434","u0430","u0442","u0430">>,
    <<"u0447","u0430","u0441","u043E","u0432","u043E","u0439","u043F","u043E","u044F","u0441">>,
    <<"u0441","u043C","u0435","u0449","u0435","u043D","u0438","u0435","u043B","u0435","u0442","u043D","u0435","u0433","u043E","u0432","u0440","u0435","u043C","u0435","u043D","u0438">>,
    <<"u0441","u043C","u0435","u0449","u0435","u043D","u0438","u0435","u0441","u0442","u0430","u043D","u0434","u0430","u0440","u0442","u043D","u043E","u0433","u043E","u0432","u0440","u0435","u043C","u0435","u043D","u0438">>,
    <<"u043F","u043E","u043B","u0443","u0447","u0438","u0442","u044C","u0434","u043E","u043F","u0443","u0441","u0442","u0438","u043C","u044B","u0435","u043A","u043E","u0434","u044B","u043B","u043E","u043A","u0430","u043B","u0438","u0437","u0430","u0446","u0438","u0438">>,
    <<"u043F","u043E","u043B","u0443","u0447","u0438","u0442","u044C","u0434","u043E","u043F","u0443","u0441","u0442","u0438","u043C","u044B","u0435","u0447","u0430","u0441","u043E","u0432","u044B","u0435","u043F","u043E","u044F","u0441","u0430">>,
    <<"u043F","u0440","u0435","u0434","u0441","u0442","u0430","u0432","u043B","u0435","u043D","u0438","u0435","u043A","u043E","u0434","u0430","u043B","u043E","u043A","u0430","u043B","u0438","u0437","u0430","u0446","u0438","u0438">>,
    <<"u043F","u0440","u0435","u0434","u0441","u0442","u0430","u0432","u043B","u0435","u043D","u0438","u0435","u0447","u0430","u0441","u043E","u0432","u043E","u0433","u043E","u043F","u043E","u044F","u0441","u0430">>,
    <<"u043D","u0430","u0439","u0442","u0438","u043E","u043A","u043D","u043E","u043F","u043E","u043D","u0430","u0432","u0438","u0433","u0430","u0446","u0438","u043E","u043D","u043D","u043E","u0439","u0441","u0441","u044B","u043B","u043A","u0435">>,
    <<"u043F","u0435","u0440","u0435","u0439","u0442","u0438","u043F","u043E","u043D","u0430","u0432","u0438","u0433","u0430","u0446","u0438","u043E","u043D","u043D","u043E","u0439","u0441","u0441","u044B","u043B","u043A","u0435">>,
    <<"u043F","u043E","u043B","u0443","u0447","u0438","u0442","u044C","u043E","u043A","u043D","u0430">>,
    <<"u043F","u043E","u043B","u0443","u0447","u0438","u0442","u044C","u043F","u0440","u0435","u0434","u0441","u0442","u0430","u0432","u043B","u0435","u043D","u0438","u0435","u043D","u0430","u0432","u0438","u0433","u0430","u0446","u0438","u043E","u043D","u043D","u043E","u0439","u0441","u0441","u044B","u043B","u043E","u043A">>,
    <<"u043F","u043E","u043B","u0443","u0447","u0438","u0442","u044C","u043C","u0430","u043A","u0435","u0442","u043E","u0444","u043E","u0440","u043C","u043B","u0435","u043D","u0438","u044F">>,
    <<"s","t","r","l","e","n">>,
    <<"s","t","r","f","i","n","d">>,
    <<"s","t","r","g","e","t","l","i","n","e">>,
    <<"s","t","r","s","p","l","i","t">>,
    <<"s","t","r","c","o","n","c","a","t">>,
    <<"s","t","r","r","e","p","l","a","c","e">>,
    <<"s","t","r","t","e","m","p","l","a","t","e">>,
    <<"t","r","i","m","a","l","l">>,
    <<"t","r","i","m","l">>,
    <<"t","r","i","m","r">>,
    <<"u","p","p","e","r">>,
    <<"l","o","w","e","r">>,
    <<"t","i","t","l","e">>,
    <<"e","m","p","t","y","s","t","r","i","n","g">>,
    <<"s","t","r","c","o","m","p","a","r","e">>,
    <<"s","t","r","l","i","n","e","c","o","u","n","t">>,
    <<"n","u","m","b","e","r">>,
    <<"f","o","r","m","a","t">>,
    <<"i","n","t">>,
    <<"r","o","u","n","d">>,
    <<"m","a","x">>,
    <<"m","i","n">>,
    <<"d","a","t","e">>,
    <<"y","e","a","r">>,
    <<"m","o","n","t","h">>,
    <<"d","a","y">>,
    <<"h","o","u","r">>,
    <<"m","i","n","u","t","e">>,
    <<"s","e","c","o","n","d">>,
    <<"c","u","r","r","e","n","t","d","a","t","e">>,
    <<"b","e","g","o","f","y","e","a","r">>,
    <<"b","e","g","o","f","m","o","n","t","h">>,
    <<"b","e","g","o","f","d","a","y">>,
    <<"e","n","d","o","f","y","e","a","r">>,
    <<"e","n","d","o","f","m","o","n","t","h">>,
    <<"e","n","d","o","f","d","a","y">>,
    <<"a","d","d","m","o","n","t","h">>,
    <<"t","y","p","e">>,
    <<"t","y","p","e","o","f">>,
    <<"s","t","r","i","n","g">>,
    <<"b","o","o","l","e","a","n">>,
    <<"x","m","l","t","y","p","e">>,
    <<"x","m","l","v","a","l","u","e">>,
    <<"x","m","l","s","t","r","i","n","g">>,
    <<"m","e","s","s","a","g","e">>,
    <<"a","l","e","r","t">>,
    <<"q","u","e","s","t","i","o","n">>,
    <<"n","o","t","i","f","y">>,
    <<"s","t","a","t","u","s">>,
    <<"n","e","w">>,
    <<"i","s","f","i","l","l","e","d">>,
    <<"f","i","l","l","p","r","o","p","e","r","t","y","v","a","l","u","e","s">>,
    <<"e","x","e","c","u","t","e">>
  }

\* ------------------------------------------- the scripting-language tokenizer
\* isWordStart: /[A-Za-z_А-яЁё]/
WordStartChars == LatinLetters \cup {"_"} \cup CyrLetters
\* .test(undefined) matches the letters of "undefined"
isWordStart(ch) == ch \in WordStartChars \cup {UNDEF}
\* isWordChar: /[A-Za-z0-9_А-яЁё]/
WordChars == WordStartChars \cup Digits
isWordChar(ch) == ch \in WordChars \cup {UNDEF}
\* /[A-Za-z_А-яЁё]/ of the directive and attribute names
DirectiveChars == WordStartChars
OperatorChars == {"+", "-", "*", "/", "%", "=", "<", ">"}
BlankChars == {" ", "\t", "\r", "\n"}

\* the end of the literal opened at cursor i by quote: a doubled quote is skipped
\* a plausible slip: the literal ends at the next delimiter, doubled or not
StringEndAtFirst(code, j, quote) ==
  IF \E k \in j..(Len(code) - 1) : At(code, k) = quote
  THEN (CHOOSE k \in j..(Len(code) - 1) : At(code, k) = quote /\ \A m \in j..(k - 1) : At(code, m) # quote) + 1
  ELSE Max(j, Len(code))
RECURSIVE StringEnd(_, _, _)
StringEnd(code, j, quote) ==
  IF j >= Len(code) THEN j
  ELSE IF At(code, j) = quote
       THEN IF At(code, j + 1) = quote THEN StringEnd(code, j + 2, quote) ELSE j + 1
       ELSE StringEnd(code, j + 1, quote)

\* the digits of a date and of the time after it
DateDigits == 8
TimeDigits == 6
\* /^'[0-9]{8}([0-9]{6})?'$/
\* a plausible slip: the pattern is not anchored at its end
IsDateLiteralOpenEnded(content) ==
  /\ Len(content) >= 10
  /\ content[1] = "'"
  /\ \A k \in 2..9 : content[k] \in Digits
  /\ \/ content[10] = "'"
     \/ Len(content) >= 16 /\ content[16] = "'" /\ \A k \in 10..15 : content[k] \in Digits
IsDateLiteral(content) ==
  /\ Len(content) \in {10, 16}
  /\ content[1] = "'" /\ content[Len(content)] = "'"
  /\ \A k \in 2..(Len(content) - 1) : content[k] \in Digits

\* the end of the line comment opened at cursor i
CommentEnd(code, i) == ScanWhile(code, i + 2, Range(code) \ {"\n"})

\* the guard of the number rule: a digit, or a minus sign before a digit
NumberStart(code, i) ==
  \/ At(code, i) \in Digits
  \/ At(code, i) = "-" /\ At(code, i + 1) \in Digits
\* not part of an identifier, not after '.' or ')'
NumberAllowed(code, i) ==
  LET prev == IF i > 0 THEN At(code, i - 1) ELSE ""
  IN prev \notin WordChars /\ prev \notin {".", ")"}
\* sign, integer part, decimal part, exponent
NumberEnd(code, i) ==
  LET j1 == IF At(code, i) = "-" THEN i + 1 ELSE i
      j2 == ScanWhile(code, j1, Digits)
      j3 == IF At(code, j2) = "." /\ At(code, j2 + 1) \in Digits
            THEN ScanWhile(code, j2 + 1, Digits) ELSE j2
      j4 == IF At(code, j3) \in {"e", "E"} /\ At(code, j3 + 1) \in Digits \cup {"+", "-"}
            THEN LET j5 == j3 + 1
                     j6 == IF At(code, j5) \in {"+", "-"} THEN j5 + 1 ELSE j5
                 IN ScanWhile(code, j6, Digits)
            ELSE j3
  IN j4

\* the first cursor at or below k that holds no blank, going backwards (or -1)
RECURSIVE SkipBlanksBack(_, _)
SkipBlanksBack(code, k) ==
  IF k >= 0 /\ At(code, k) \in BlankChars THEN SkipBlanksBack(code, k - 1) ELSE k
RECURSIVE WordBack(_, _)
WordBack(code, k) ==
  IF k >= 0 /\ At(code, k) \in WordChars THEN WordBack(code, k - 1) ELSE k

\* a dot IMMEDIATELY before the word, no whitespace
IsAfterDot(code, i) == i - 1 >= 0 /\ At(code, i - 1) = "."
\* the word before the identifier at i, lower-cased, skipping blanks ("" if none)
PrevWord(code, i) ==
  LET k == SkipBlanksBack(code, i - 1)
  IN IF k >= 0 /\ ~IsAfterDot(code, i) /\ At(code, k) # "." /\ At(code, k) \in WordChars
     THEN ToLower(Slice(code, WordBack(code, k) + 1, k + 1))
     ELSE <<>>
\* the next non-blank character after the word ending at j is '('
IsBeforeParen(code, j) ==
  LET afterIdx == ScanWhile(code, j, BlankChars)
  IN afterIdx < Len(code) /\ At(code, afterIdx) = "("

Novyi == <<"u043D","u043E","u0432","u044B","u0439">>
\* a plausible slip: a builtin is not checked for the dot before it
WordClassBuiltinAfterDot(code, i, j) ==
  LET word == Slice(code, i, j)
      lw == ToLower(word)
      isAfterDot == IsAfterDot(code, i)
  IN IF lw \in UPPERCASE_ONLY_KEYWORDS /\ ~isAfterDot /\ word = ToUpper(word) THEN "tok-k"
     ELSE IF lw \in KEYWORDS /\ ~isAfterDot THEN "tok-k"
     ELSE IF lw \in TYPES /\ PrevWord(code, i) = Novyi THEN "tok-type"
     ELSE IF lw \in BUILTINS /\ (lw = Novyi \/ IsBeforeParen(code, j)) THEN "tok-builtin"
     ELSE ""
\* the class of the identifier code[i..j): "" for a plain identifier
WordClass(code, i, j) ==
  LET word == Slice(code, i, j)
      lw == ToLower(word)
      isAfterDot == IsAfterDot(code, i)
  IN IF lw \in UPPERCASE_ONLY_KEYWORDS /\ ~isAfterDot /\ word = ToUpper(word) THEN "tok-k"
     ELSE IF lw \in KEYWORDS /\ ~isAfterDot THEN "tok-k"
     ELSE IF lw \in TYPES /\ PrevWord(code, i) = Novyi THEN "tok-type"
     ELSE IF lw \in BUILTINS /\ ~isAfterDot /\ (lw = Novyi \/ IsBeforeParen(code, j))
          THEN "tok-builtin"
     ELSE ""

\* the end of the operator at i: <=, >=, <> are one token
OperatorEnd(code, i) ==
  LET ch == At(code, i)
  IN IF ch \in {"<", ">"} /\ At(code, i + 1) = "=" THEN i + 2
     ELSE IF ch = "<" /\ At(code, i + 1) = ">" THEN i + 2
     ELSE i + 1

\* the rule of highlightBSL's main loop that takes the character at cursor i
BslRule(code, i) ==
  LET ch == At(code, i)
  IN IF ch \in {"\"", "'"} THEN "string"
     ELSE IF ch = "/" /\ At(code, i + 1) = "/" THEN "comment"
     ELSE IF ch = "#" THEN "preproc"
     ELSE IF ch = "&" THEN "attr"
     ELSE IF NumberStart(code, i) /\ NumberAllowed(code, i) THEN "number"
     ELSE IF isWordStart(ch) THEN "word"
     ELSE IF ch \in OperatorChars THEN "operator"
     ELSE "default"

\* one iteration of highlightBSL's loop at cursor i: the new cursor, the text appended to out
BslStep(code, i) ==
  LET ch == At(code, i)
      rule == BslRule(code, i)
  IN CASE rule = "string" ->
            LET j == StringEnd(code, i + 1, ch)
                content == Slice(code, i, j)
                isDate == ch = "'" /\ IsDateLiteral(content)
            IN [next |-> j, html |-> Span(IF isDate THEN "tok-num" ELSE "tok-str", content)]
       [] rule = "comment" ->
            LET j == CommentEnd(code, i)
            IN [next |-> j, html |-> Span("tok-com", Slice(code, i, j))]
       [] rule = "preproc" ->
            LET j == ScanWhile(code, i + 1, DirectiveChars)
            IN [next |-> j, html |-> Span("tok-preproc", Slice(code, i, j))]
       [] rule = "attr" ->
            LET j == ScanWhile(code, i + 1, DirectiveChars)
            IN [next |-> j, html |-> Span("tok-attr", Slice(code, i, j))]
       [] rule = "number" ->
            LET j == NumberEnd(code, i)
            IN [next |-> j, html |-> Span("tok-num", Slice(code, i, j))]
       [] rule = "word" ->
            LET j == ScanWhile(code, i + 1, WordChars)
                cls == WordClass(code, i, j)
            IN [next |-> j,
                html |-> IF cls = "" THEN esc(Slice(code, i, j)) ELSE Span(cls, Slice(code, i, j))]
       [] rule = "operator" ->
            LET j == OperatorEnd(code, i)
            IN [next |-> j, html |-> Span("tok-op", Slice(code, i, j))]
       [] OTHER -> [next |-> i + 1, html |-> esc(<<ch>>)]

\* highlightBSL(code): the loop run from cursor i to the end
RECURSIVE highlightBSLFrom(_, _)
highlightBSLFrom(code, i) ==
  IF i >= Len(code) THEN <<>>
  ELSE LET st == BslStep(code, i)
       IN st.html \o highlightBSLFrom(code, st.next)
highlightBSL(code) == highlightBSLFrom(code, 0)

\* ------------------------------------------------------- the XML tokenizer
\* xml.js esc: the same three replacements as markdown.js esc
escXml(s) == ReplaceCh(ReplaceCh(ReplaceCh(s, "&", EscAmp), "<", EscLt), ">", EscGt)
XmlSpan(cls, text) == <<SpanOpen(cls)>> \o escXml(text) \o <<SpanClose>>
\* /[a-zA-Z0-9:._-]/ of tag and attribute names
XmlNameChars == LatinLetters \cup Digits \cup {":", ".", "_", "-"}
\* /\s/ on the characters of the model
XmlSpace == {" ", "\t", "\r", "\n"}
HexDigits == Digits \cup {"a","b","c","d","e","f","A","B","C","D","E","F"}
CommentOpen == <<"<","!","-","-">>
CommentClose == <<"-","-",">">>
CdataOpen == <<"<","!","[","C","D","A","T","A","[">>
CdataClose == <<"]","]",">">>
DoctypeOpen == <<"<","!","D","O","C","T","Y","P","E">>
PiClose == <<"?",">">>

\* a plausible slip: the -1 of indexOf is not told apart
RegionEndNoFallback(code, close, from) == IndexOf(code, close, from) + Len(close)
\* code.indexOf(close, from), then past it; the end of the input when there is none
RegionEnd(code, close, from) ==
  LET j == IndexOf(code, close, from)
  IN IF j = -1 THEN Len(code) ELSE j + Len(close)

\* the DOCTYPE scan: depth up on '<', down on '>', until depth 0 or the end
RECURSIVE DoctypeEnd(_, _, _)
DoctypeEnd(code, j, depth) ==
  IF j < Len(code) /\ depth > 0
  THEN DoctypeEnd(code, j + 1,
                  IF At(code, j) = "<" THEN depth + 1
                  ELSE IF At(code, j) = ">" THEN depth - 1 ELSE depth)
  ELSE j

\* /^<\?xml\s/i on the processing instruction
IsXmlDecl(pi) ==
  /\ Len(pi) >= 6
  /\ ToLower(SubSeq(pi, 1, 5)) = <<"<","?","x","m","l">>
  /\ pi[6] \in XmlSpace

\* the cursor after the entity name that starts at i + 1
EntityNameEnd(code, i) ==
  LET j == i + 1
  IN IF At(code, j) = "#"
     THEN IF At(code, j + 1) \in {"x", "X"}
          THEN ScanWhile(code, j + 2, HexDigits)
          ELSE ScanWhile(code, j + 1, Digits)
     ELSE ScanWhile(code, j, LatinLetters \cup Digits)

\* the rule of highlightXML's main loop that takes the character at cursor i;
\* /[a-zA-Z/]/.test(code[i + 1]) is true of the undefined after a final '<'
XmlRule(code, i) ==
  LET ch == At(code, i)
  IN IF ch = "<" /\ Slice(code, i, i + 4) = CommentOpen THEN "comment"
     ELSE IF ch = "<" /\ Slice(code, i, i + 9) = CdataOpen THEN "cdata"
     ELSE IF ch = "<" /\ ToUpper(Slice(code, i, i + 9)) = DoctypeOpen THEN "doctype"
     ELSE IF ch = "<" /\ At(code, i + 1) = "?" THEN "pi"
     ELSE IF ch = "<" /\ At(code, i + 1) \in LatinLetters \cup {"/", UNDEF} THEN "tag"
     ELSE IF ch = "&" /\ At(code, EntityNameEnd(code, i)) = ";" THEN "entity"
     ELSE "default"

\* the head of the tag rule: '<', an optional '/', the tag name, then whitespace
XmlTagHead(code, i) ==
  LET isClosing == At(code, i + 1) = "/"
      tagStart == IF isClosing THEN i + 2 ELSE i + 1
      j == ScanWhile(code, tagStart, XmlNameChars)
      tagName == Slice(code, tagStart, j)
      k == ScanWhile(code, j, XmlSpace)
  IN [isClosing |-> isClosing,
      next |-> k,
      html |-> XmlSpan("tok-xml-tag", <<"<">> \o (IF isClosing THEN <<"/">> ELSE <<>>) \o tagName)
               \o escXml(Slice(code, j, k))]

\* the condition of the attribute loop
XmlAttrLoop(code, j) ==
  /\ j < Len(code)
  /\ At(code, j) # ">"
  /\ ~(At(code, j) = "/" /\ At(code, j + 1) = ">")

\* the value part of an attribute, from the cursor after '=' and its whitespace
XmlAttrValue(code, j) ==
  IF At(code, j) \in {"\"", "'"}
  THEN LET k0 == ScanWhile(code, j + 1, Range(code) \ {At(code, j)})
           k == IF k0 < Len(code) THEN k0 + 1 ELSE k0
       IN [next |-> k, html |-> XmlSpan("tok-xml-val", Slice(code, j, k))]
  ELSE [next |-> j, html |-> <<>>]

\* one iteration of the attribute loop at cursor j: name, blanks, '=', blanks, value, blanks
XmlAttrIteration(code, j) ==
  LET a1 == ScanWhile(code, j, XmlNameChars)
      h1 == IF a1 > j THEN XmlSpan("tok-xml-attr", Slice(code, j, a1)) ELSE <<>>
      a2 == ScanWhile(code, a1, XmlSpace)
      h2 == escXml(Slice(code, a1, a2))
      hasEq == At(code, a2) = "="
      a3 == IF hasEq THEN ScanWhile(code, a2 + 1, XmlSpace) ELSE a2
      h3 == IF hasEq THEN escXml(<<"=">>) \o escXml(Slice(code, a2 + 1, a3)) ELSE <<>>
      val == IF hasEq THEN XmlAttrValue(code, a3) ELSE [next |-> a3, html |-> <<>>]
      a4 == ScanWhile(code, val.next, XmlSpace)
      h4 == escXml(Slice(code, val.next, a4))
  IN [next |-> a4, html |-> h1 \o h2 \o h3 \o val.html \o h4]

\* the tail of the tag rule: '/>' or '>' when it stands at the cursor
XmlTagTail(code, j) ==
  IF At(code, j) = "/" /\ At(code, j + 1) = ">"
  THEN [next |-> j + 2, html |-> <<SpanOpen("tok-xml-tag"), "/">> \o EscGt \o <<SpanClose>>]
  ELSE IF At(code, j) = ">"
  THEN [next |-> j + 1, html |-> <<SpanOpen("tok-xml-tag")>> \o EscGt \o <<SpanClose>>]
  ELSE [next |-> j, html |-> <<>>]

\* one iteration of the main loop by a rule other than the tag rule
XmlSimpleStep(code, i) ==
  LET rule == XmlRule(code, i)
  IN CASE rule = "comment" ->
            LET j == RegionEnd(code, CommentClose, i + 4)
            IN [next |-> j, html |-> XmlSpan("tok-com", Slice(code, i, j))]
       [] rule = "cdata" ->
            LET j == RegionEnd(code, CdataClose, i + 9)
            IN [next |-> j, html |-> XmlSpan("tok-xml-cdata", Slice(code, i, j))]
       [] rule = "doctype" ->
            LET j == DoctypeEnd(code, i + 9, 1)
            IN [next |-> j, html |-> XmlSpan("tok-xml-doctype", Slice(code, i, j))]
       [] rule = "pi" ->
            LET j == RegionEnd(code, PiClose, i + 2)
                pi == Slice(code, i, j)
            IN [next |-> j,
                html |-> XmlSpan(IF IsXmlDecl(pi) THEN "tok-xml-decl" ELSE "tok-xml-pi", pi)]
       [] rule = "entity" ->
            LET j == EntityNameEnd(code, i) + 1
            IN [next |-> j, html |-> XmlSpan("tok-xml-entity", Slice(code, i, j))]
       [] OTHER -> [next |-> i + 1, html |-> escXml(<<At(code, i)>>)]

\* the attribute loop run from cursor j: where it ends and what it wrote, or
\* hang when an iteration leaves the cursor where it was (the loop then repeats
\* that iteration for ever)
RECURSIVE XmlAttrs(_, _)
\* ... what the iteration st wrote, then what the iterations after it did (r)
XmlAttrsAfter(st, r) == [next |-> r.next, html |-> st.html \o r.html, hang |-> r.hang]
\* ... after the iteration st that started at cursor j
XmlAttrsStep(code, j, st) ==
  IF st.next = j THEN [next |-> j, html |-> <<>>, hang |-> TRUE]
  ELSE XmlAttrsAfter(st, XmlAttrs(code, st.next))
XmlAttrs(code, j) ==
  IF ~XmlAttrLoop(code, j) THEN [next |-> j, html |-> <<>>, hang |-> FALSE]
  ELSE XmlAttrsStep(code, j, XmlAttrIteration(code, j))

\* highlightXML(code) from cursor i: the markup it returns, or hang
RECURSIVE highlightXMLFrom(_, _)
\* ... out so far, then what the iterations after it did (r)
XmlOutAfter(html, r) == [html |-> html \o r.html, hang |-> r.hang]
\* ... the tag rule after its attribute loop: the tail, then on from the cursor after it
XmlTagRest(code, html, tail) == XmlOutAfter(html \o tail.html, highlightXMLFrom(code, tail.next))
\* ... the tag rule after its head: the attribute loop unless the tag is a closing one
XmlTagAttrs(code, html, attrs) ==
  IF attrs.hang THEN [html |-> <<>>, hang |-> TRUE]
  ELSE XmlTagRest(code, html \o attrs.html, XmlTagTail(code, attrs.next))
XmlTagRule(code, head) ==
  XmlTagAttrs(code, head.html,
              IF head.isClosing THEN [next |-> head.next, html |-> <<>>, hang |-> FALSE]
              ELSE XmlAttrs(code, head.next))
\* ... the other rules: the step st, then on from the cursor after it
XmlSimpleRule(code, st) == XmlOutAfter(st.html, highlightXMLFrom(code, st.next))
highlightXMLFrom(code, i) ==
  IF i >= Len(code) THEN [html |-> <<>>, hang |-> FALSE]
  ELSE IF XmlRule(code, i) = "tag" THEN XmlTagRule(code, XmlTagHead(code, i))
  ELSE XmlSimpleRule(code, XmlSimpleStep(code, i))
highlightXML(code) == highlightXMLFrom(code, 0)

\* ------------------------------------------------------ the language detectors
\* \w of a RegExp without the u flag: ASCII only
AsciiWordChars == LatinLetters \cup Digits \cup {"_"}
\* \s on the characters of the model
ReSpace == {" ", "\t", "\r", "\n"}
\* \b at cursor k: exactly one of the characters before and after k is a \w character
WordBoundary(text, k) ==
  (At(text, k - 1) \in AsciiWordChars) # (At(text, k) \in AsciiWordChars)
\* the word w stands at cursor k, compared as the i flag compares (by upper case)
MatchesAt(text, w, k) ==
  /\ k >= 0 /\ k + Len(w) <= Len(text)
  /\ ToUpper(SubSeq(text, k + 1, k + Len(w))) = ToUpper(w)
\* /\b(w1|w2|...)\b/i.test(text)
WordRe(text, alts) ==
  \E k \in 0..Len(text), w \in alts :
    MatchesAt(text, w, k) /\ WordBoundary(text, k) /\ WordBoundary(text, k + Len(w))
\* /&\s*(w1|w2|...)/i.test(text)
AmpRe(text, alts) ==
  \E k \in 0..(Len(text) - 1), w \in alts :
    At(text, k) = "&" /\ MatchesAt(text, w, ScanWhile(text, k + 1, ReSpace))
\* /#(w1|w2|...)\b/i.test(text)
HashRe(text, alts) ==
  \E k \in 0..(Len(text) - 1), w \in alts :
    At(text, k) = "#" /\ MatchesAt(text, w, k + 1) /\ WordBoundary(text, k + 1 + Len(w))
\* /'[0-9]{8}([0-9]{6})?'/.test(text)
DateRe(text) ==
  \E k \in 0..(Len(text) - 1), n \in {8, 14} :
    /\ At(text, k) = "'" /\ At(text, k + n + 1) = "'"
    /\ \A m \in (k + 1)..(k + n) : At(text, m) \in Digits

\* markdown.js 964: the alternatives of /\b(Процедура|Procedure)\b/i
ReProcedure == {<<"u041F","u0440","u043E","u0446","u0435","u0434","u0443","u0440","u0430">>,
  <<"P","r","o","c","e","d","u","r","e">>}
\* markdown.js 965: the alternatives of /\b(Функция|Function)\b/i
ReFunction == {<<"u0424","u0443","u043D","u043A","u0446","u0438","u044F">>,
  <<"F","u","n","c","t","i","o","n">>}
\* markdown.js 966: the alternatives of /\b(КонецПроцедуры|EndProcedure)\b/i
ReEndProcedure == {<<"u041A","u043E","u043D","u0435","u0446","u041F","u0440","u043E","u0446","u0435","u0434","u0443","u0440","u044B">>,
  <<"E","n","d","P","r","o","c","e","d","u","r","e">>}
\* markdown.js 967: the alternatives of /\b(КонецФункции|EndFunction)\b/i
ReEndFunction == {<<"u041A","u043E","u043D","u0435","u0446","u0424","u0443","u043D","u043A","u0446","u0438","u0438">>,
  <<"E","n","d","F","u","n","c","t","i","o","n">>}
\* markdown.js 970: the alternatives of /\b(Если|If)\b/i
ReIf == {<<"u0415","u0441","u043B","u0438">>,
  <<"I","f">>}
\* markdown.js 970: the alternatives of /\b(Тогда|Then)\b/i
ReThen == {<<"u0422","u043E","u0433","u0434","u0430">>,
  <<"T","h","e","n">>}
\* markdown.js 971: the alternatives of /\b(Для|For)\b/i
ReFor == {<<"u0414","u043B","u044F">>,
  <<"F","o","r">>}
\* markdown.js 971: the alternatives of /\b(Каждого|Each)\b/i
ReEach == {<<"u041A","u0430","u0436","u0434","u043E","u0433","u043E">>,
  <<"E","a","c","h">>}
\* markdown.js 972: the alternatives of /\b(Цикл|Do)\b/i
ReDo == {<<"u0426","u0438","u043A","u043B">>,
  <<"D","o">>}
\* markdown.js 973: the alternatives of /\b(КонецЦикла|EndDo)\b/i
ReEndDo == {<<"u041A","u043E","u043D","u0435","u0446","u0426","u0438","u043A","u043B","u0430">>,
  <<"E","n","d","D","o">>}
\* markdown.js 976: the alternatives of /\b(Запрос|Query)\b/i
ReQuery == {<<"u0417","u0430","u043F","u0440","u043E","u0441">>,
  <<"Q","u","e","r","y">>}
\* markdown.js 977: the alternatives of /\b(ТаблицаЗначений|ValueTable)\b/i
ReValueTable == {<<"u0422","u0430","u0431","u043B","u0438","u0446","u0430","u0417","u043D","u0430","u0447","u0435","u043D","u0438","u0439">>,
  <<"V","a","l","u","e","T","a","b","l","e">>}
\* markdown.js 978: the alternatives of /\b(Выборка|Selection)\b/i
ReSelection == {<<"u0412","u044B","u0431","u043E","u0440","u043A","u0430">>,
  <<"S","e","l","e","c","t","i","o","n">>}
\* markdown.js 979: the alternatives of /\b(Соответствие|Map)\b/i
ReMap == {<<"u0421","u043E","u043E","u0442","u0432","u0435","u0442","u0441","u0442","u0432","u0438","u0435">>,
  <<"M","a","p">>}
\* markdown.js 982: the alternatives of /&\s*На(Клиенте|Сервере|СервереВКлиенте|СервереБезКонтекста)/i
ReNaDirective == {<<"u041D","u0430","u041A","u043B","u0438","u0435","u043D","u0442","u0435">>,
  <<"u041D","u0430","u0421","u0435","u0440","u0432","u0435","u0440","u0435">>,
  <<"u041D","u0430","u0421","u0435","u0440","u0432","u0435","u0440","u0435","u0412","u041A","u043B","u0438","u0435","u043D","u0442","u0435">>,
  <<"u041D","u0430","u0421","u0435","u0440","u0432","u0435","u0440","u0435","u0411","u0435","u0437","u041A","u043E","u043D","u0442","u0435","u043A","u0441","u0442","u0430">>}
\* markdown.js 983: the alternatives of /&\s*At(Client|Server|ServerNoContext)/i
ReAtDirective == {<<"A","t","C","l","i","e","n","t">>,
  <<"A","t","S","e","r","v","e","r">>,
  <<"A","t","S","e","r","v","e","r","N","o","C","o","n","t","e","x","t">>}
\* markdown.js 986: the alternatives of /#(Если|Область|If|Region)\b/i
RePreproc == {<<"u0415","u0441","u043B","u0438">>,
  <<"u041E","u0431","u043B","u0430","u0441","u0442","u044C">>,
  <<"I","f">>,
  <<"R","e","g","i","o","n">>}
\* markdown.js 989: the alternatives of /\b(Сообщить|Message|ТекущаяДата|CurrentDate)\b/i
ReMessage == {<<"u0421","u043E","u043E","u0431","u0449","u0438","u0442","u044C">>,
  <<"M","e","s","s","a","g","e">>,
  <<"u0422","u0435","u043A","u0443","u0449","u0430","u044F","u0414","u0430","u0442","u0430">>,
  <<"C","u","r","r","e","n","t","D","a","t","e">>}
\* markdown.js 990: the alternatives of /\b(СтрДлина|StrLen|СтрНайти|StrFind)\b/i
ReStrLen == {<<"u0421","u0442","u0440","u0414","u043B","u0438","u043D","u0430">>,
  <<"S","t","r","L","e","n">>,
  <<"u0421","u0442","u0440","u041D","u0430","u0439","u0442","u0438">>,
  <<"S","t","r","F","i","n","d">>}

Score(b, n) == IF b THEN n ELSE 0
\* the score likelyBSL accumulates
BslScore(text) ==
    Score(WordRe(text, ReProcedure), 2)
  + Score(WordRe(text, ReFunction), 2)
  + Score(WordRe(text, ReEndProcedure), 2)
  + Score(WordRe(text, ReEndFunction), 2)
  + Score(WordRe(text, ReIf) /\ WordRe(text, ReThen), 1)
  + Score(WordRe(text, ReFor) /\ WordRe(text, ReEach), 1)
  + Score(WordRe(text, ReDo), 1)
  + Score(WordRe(text, ReEndDo), 1)
  + Score(WordRe(text, ReQuery), 1)
  + Score(WordRe(text, ReValueTable), 1)
  + Score(WordRe(text, ReSelection), 1)
  + Score(WordRe(text, ReMap), 1)
  + Score(AmpRe(text, ReNaDirective), 2)
  + Score(AmpRe(text, ReAtDirective), 2)
  + Score(HashRe(text, RePreproc), 1)
  + Score(WordRe(text, ReMessage), 1)
  + Score(WordRe(text, ReStrLen), 1)
  + Score(DateRe(text), 1)
\* return score >= 2
likelyBSL(text) == BslScore(text) >= 2

\* text.trim()
RECURSIVE TrimStart(_)
TrimStart(s) == IF s # <<>> /\ Head(s) \in ReSpace THEN TrimStart(Tail(s)) ELSE s
RECURSIVE TrimEnd(_)
TrimEnd(s) == IF s # <<>> /\ s[Len(s)] \in ReSpace THEN TrimEnd(SubSeq(s, 1, Len(s) - 1)) ELSE s
Trim(s) == TrimEnd(TrimStart(s))

\* [\w:.-] and [\w.-]
XmlTagNameRest == AsciiWordChars \cup {":", ".", "-"}
XmlPrefixRest == AsciiWordChars \cup {".", "-"}
\* /^<\?xml\s/i.test(text.trim())
XmlDeclRe(text) ==
  LET t == Trim(text)
  IN MatchesAt(t, <<"<","?","x","m","l">>, 0) /\ At(t, 5) \in ReSpace
\* /<!DOCTYPE\s/i
DoctypeRe(text) ==
  \E k \in 0..Len(text) : MatchesAt(text, DoctypeOpen, k) /\ At(text, k + 9) \in ReSpace
\* text.match(/<([a-zA-Z][\w:.-]*)/g) and text.match(/<\/([a-zA-Z][\w:.-]*)/g) both hold a match
OpenTagRe(text) == \E k \in 0..Len(text) : At(text, k) = "<" /\ At(text, k + 1) \in LatinLetters
CloseTagRe(text) ==
  \E k \in 0..Len(text) :
    At(text, k) = "<" /\ At(text, k + 1) = "/" /\ At(text, k + 2) \in LatinLetters
\* /<[a-zA-Z][\w:.-]*[^>]*\/>/
SelfClosingRe(text) ==
  \E k \in 0..Len(text), m \in 0..Len(text) :
    /\ At(text, k) = "<" /\ At(text, k + 1) \in LatinLetters
    /\ m >= k + 2 /\ StartsAt(text, <<"/",">">>, m)
    /\ \A n \in (k + 2)..(m - 1) : At(text, n) # ">"
\* /xmlns(:[a-zA-Z][\w.-]*)?=/
XmlnsRe(text) ==
  \E k \in 0..Len(text) :
    /\ StartsAt(text, <<"x","m","l","n","s">>, k)
    /\ \/ At(text, k + 5) = "="
       \/ /\ At(text, k + 5) = ":" /\ At(text, k + 6) \in LatinLetters
          /\ At(text, ScanWhile(text, k + 7, XmlPrefixRest)) = "="
\* /<\?[a-zA-Z][\w.-]*/
PiRe(text) ==
  \E k \in 0..Len(text) : StartsAt(text, <<"<","?">>, k) /\ At(text, k + 2) \in LatinLetters
\* /<!--[\s\S]*?-->/
CommentRe(text) ==
  \E k \in 0..Len(text) : StartsAt(text, CommentOpen, k) /\ IndexOf(text, CommentClose, k + 4) # -1
\* /\s[a-zA-Z][\w:.-]*\s*=\s*["']/
AttributeRe(text) ==
  \E k \in 0..Len(text) :
    /\ At(text, k) \in ReSpace /\ At(text, k + 1) \in LatinLetters
    /\ LET j1 == ScanWhile(text, ScanWhile(text, k + 2, XmlTagNameRest), ReSpace)
       IN /\ At(text, j1) = "="
          /\ At(text, ScanWhile(text, j1 + 1, ReSpace)) \in {"\"", "'"}
\* /&(#\d+|#x[0-9a-fA-F]+|[a-zA-Z]+);/
EntityRe(text) ==
  \E k \in 0..Len(text) :
    /\ At(text, k) = "&"
    /\ \/ /\ At(text, k + 1) = "#" /\ At(text, k + 2) \in Digits
          /\ At(text, ScanWhile(text, k + 2, Digits)) = ";"
       \/ /\ At(text, k + 1) = "#" /\ At(text, k + 2) = "x" /\ At(text, k + 3) \in HexDigits
          /\ At(text, ScanWhile(text, k + 3, HexDigits)) = ";"
       \/ /\ At(text, k + 1) \in LatinLetters
          /\ At(text, ScanWhile(text, k + 1, LatinLetters)) = ";"

\* the score when the last test assigns the score instead of adding to it
XmlScoreEntityResets(text) ==
  IF EntityRe(text) THEN 1
  ELSE Score(XmlDeclRe(text), 3) + Score(Contains(text, CdataOpen), 2) + Score(DoctypeRe(text), 2)
     + Score(OpenTagRe(text) /\ CloseTagRe(text), 2) + Score(SelfClosingRe(text), 1)
     + Score(XmlnsRe(text), 2) + Score(PiRe(text), 1) + Score(CommentRe(text), 1)
     + Score(AttributeRe(text), 1)
\* the score likelyXML accumulates
XmlScore(text) ==
    Score(XmlDeclRe(text), 3)
  + Score(Contains(text, CdataOpen), 2)
  + Score(DoctypeRe(text), 2)
  + Score(OpenTagRe(text) /\ CloseTagRe(text), 2)
  + Score(SelfClosingRe(text), 1)
  + Score(XmlnsRe(text), 2)
  + Score(PiRe(text), 1)
  + Score(CommentRe(text), 1)
  + Score(AttributeRe(text), 1)
  + Score(EntityRe(text), 1)
\* return score >= 2
likelyXML(text) == XmlScore(text) >= 2

\* ---------------------------------------------- BSL.highlight and XML.highlight
\* the result of a call: a boolean, null, the markup returned, or no return at all
ResultNone == [kind |-> "none", html |-> <<>>]
ResultBool(b) == [kind |-> IF b THEN "true" ELSE "false", html |-> <<>>]
ResultNull == [kind |-> "null", html |-> <<>>]
ResultHtml(h) == [kind |-> "html", html |-> h]
ResultHang == [kind |-> "hang", html |-> <<>>]
\* !!(lang && /^(bsl|1c)$/i.test(lang)); an absent lang is the empty sequence
BslForce(lang) == lang # <<>> /\ ToUpper(lang) \in {ToUpper(<<"b","s","l">>), ToUpper(<<"1","c">>)}
\* markdown.js highlight(code, lang), exported as BSL.highlight
BSL_highlight(code, lang) ==
  IF ~BslForce(lang) /\ ~likelyBSL(code) THEN ResultNull
  ELSE ResultHtml(highlightBSL(code))
\* !!(lang && /^xml$/i.test(lang))
XmlForce(lang) == lang # <<>> /\ ToUpper(lang) = ToUpper(<<"x","m","l">>)
\* what highlight returns of the run r of highlightXML
XmlResult(r) == IF r.hang THEN ResultHang ELSE ResultHtml(r.html)
\* xml.js highlight(code, lang), exported as XML.highlight
XML_highlight(code, lang) ==
  IF ~XmlForce(lang) /\ ~likelyXML(code) THEN ResultNull
  ELSE XmlResult(highlightXML(code))

\* ------------------------------------- highlightAll over a rendered code block
\* markdown.js render, fenced code: cls = lang ? ' class="lang-' + lang.toLowerCase() + '"' : ""
LangPrefix == <<"l","a","n","g","-">>
codeClass(lang) == IF lang = <<>> THEN <<>> ELSE <<LangPrefix \o ToLower(lang)>>
\* codeEl.className: the class names joined by spaces
RECURSIVE className(_)
className(classList) ==
  IF classList = <<>> THEN <<>>
  ELSE IF Len(classList) = 1 THEN classList[1]
  ELSE classList[1] \o <<" ">> \o className(Tail(classList))
\* /pattern/i.test(cls) for a literal pattern
TestCI(cls, pattern) == Contains(ToUpper(cls), ToUpper(pattern))
LangBsl == LangPrefix \o <<"b","s","l">>
Lang1c == LangPrefix \o <<"1","c">>
LangXml == LangPrefix \o <<"x","m","l">>
\* const forced = /lang-(bsl|1c)/i.test(cls)
BslForced(classList) ==
  TestCI(className(classList), LangBsl) \/ TestCI(className(classList), Lang1c)
\* const forced = /lang-xml/i.test(cls)
XmlForced(classList) == TestCI(className(classList), LangXml)
contains(classList, name) == \E k \in 1..Len(classList) : classList[k] = name
\* classList.add(name)
classListAdd(classList, name) ==
  IF contains(classList, name) THEN classList ELSE Append(classList, name)


\* ------------------------------------------------ Markdown.render: the regular expressions
\* A text is a sequence of characters. "g<" and "g>" are the characters < and > of markup
\* the pipeline itself writes; "<" and ">" are those of the rendered text. A multi-character
\* element is a whole wrapper the pipeline writes when it restores a placeholder.
Raw(c) == IF c = "g<" THEN "<" ELSE IF c = "g>" THEN ">" ELSE c
\* the line terminators of ^, $ and . ; [ \t]
LineTerminators == {"\n", "\r"}
BlankSet == {" ", "\t"}
NoMatch == -1
\* the literal pat at cursor j: the cursor after it, or NoMatch (also when j is NoMatch)
Lit(s, pat, j) == IF j >= 0 /\ StartsAt(s, pat, j) THEN j + Len(pat) ELSE NoMatch
\* class* (greedy) at cursor j
Star(s, j, class) == IF j < 0 THEN NoMatch ELSE ScanWhile(s, j, class)
\* class+ (greedy) at cursor j
Plus(s, j, class) == IF j >= 0 /\ At(s, j) \in class THEN ScanWhile(s, j, class) ELSE NoMatch
\* [^class]* and [^class]+ at cursor j (class never holds UNDEF)
StarNot(s, j, class) == IF j < 0 THEN NoMatch ELSE ScanWhile(s, j, Range(s) \ class)
PlusNot(s, j, class) ==
  IF j >= 0 /\ j < Len(s) /\ s[j + 1] \notin class THEN ScanWhile(s, j, Range(s) \ class) ELSE NoMatch
\* \r?\n at cursor j
Eol(s, j) ==
  IF j < 0 THEN NoMatch
  ELSE IF At(s, j) = "\r" /\ At(s, j + 1) = "\n" THEN j + 2
  ELSE IF At(s, j) = "\n" THEN j + 1 ELSE NoMatch
\* the least member of a set of cursors, or NoMatch
MinPos(S) == IF S = {} THEN NoMatch ELSE CHOOSE k \in S : \A m \in S : k <= m
\* the cursor a when it is a match, else b
OrElse(a, b) == IF a >= 0 THEN a ELSE b
MaxPos(S) == IF S = {} THEN NoMatch ELSE CHOOSE k \in S : \A m \in S : k >= m
\* ^ and $ under the m flag
IsLineStart(s, k) == k = 0 \/ (k > 0 /\ k <= Len(s) /\ s[k] \in LineTerminators)
IsLineEnd(s, k) == k = Len(s) \/ (k >= 0 /\ k < Len(s) /\ s[k + 1] \in LineTerminators)
\* .* at cursor j: up to the end of the line
LineEnd(s, j) == IF j < 0 THEN NoMatch ELSE ScanWhile(s, j, Range(s) \ LineTerminators)

Fence == <<"u0060","u0060","u0060">>
CodeTag == <<"<","c","o","d","e",">">>
CodeEndTag == <<"<","/","c","o","d","e",">">>
BslFence == <<"u0060","u0060","u0060","b","s","l","\n">>

\* \x60\x60\x60[ \t]*\r?\n[ \t]*\x60\x60\x60
EmptyFenceEnd(s, k) == Lit(s, Fence, Star(s, Eol(s, Star(s, Lit(s, Fence, k), BlankSet)), BlankSet))
\* \x60\x60\x601[\u0421\u0441]\r?\n (the Cyrillic letter Es in either case)
Fence1cEnd(s, k) ==
  IF StartsAt(s, <<"u0060","u0060","u0060","1">>, k) /\ At(s, k + 4) \in {"u0421", "u0441"} THEN Eol(s, k + 5) ELSE NoMatch
\* \x60\x60\x60<code>\r?\n
FenceCodeTagEnd(s, k) == Eol(s, Lit(s, <<"u0060","u0060","u0060","<","c","o","d","e",">">>, k))
\* \x60\x60\x60[ \t]*\r?\n[ \t]*<code>[ \t]*\r?\n : the cursor where the content starts
FencedCodeTagHead(s, k) ==
  Eol(s, Star(s, Lit(s, CodeTag, Star(s, Eol(s, Star(s, Lit(s, Fence, k), BlankSet)), BlankSet)), BlankSet))
\* ...[ \t]*\x60\x60\x60 (variant 2a)
EmptyCodeTagEnd(s, k) == Lit(s, Fence, Star(s, FencedCodeTagHead(s, k), BlankSet))
\* \r?\n[ \t]*<\/code>[ \t]*\r?\n[ \t]*\x60\x60\x60 at cursor p (variant 2b)
ClosedCodeTagTail(s, p) ==
  Lit(s, Fence, Star(s, Eol(s, Star(s, Lit(s, CodeEndTag, Star(s, Eol(s, p), BlankSet)), BlankSet)), BlankSet))
\* ([\s\S]*?) before it: the first cursor from which the tail matches
ClosedCodeTagContentEnd(s, c) ==
  IF c < 0 THEN NoMatch ELSE MinPos({p \in c..Len(s) : ClosedCodeTagTail(s, p) >= 0})
\* ([\s\S]*?)\x60\x60\x60 : the first fence from cursor c on
FenceContentEnd(s, c) == IF c < 0 THEN NoMatch ELSE IndexOf(s, Fence, c)
\* \x60\x60\x60code\r?\n
FenceCodeWordEnd(s, k) == Eol(s, Lit(s, <<"u0060","u0060","u0060","c","o","d","e">>, k))
\* <code>[ \t]*\r?\n : the cursor where the content starts (variants 4a, 4b)
CodeTagHead(s, k) == Eol(s, Star(s, Lit(s, CodeTag, k), BlankSet))
\* \r?\n?<\/code> at cursor p
CodeEndTail(s, p) ==
  Lit(s, CodeEndTag, IF At(s, p) = "\r" THEN (IF At(s, p + 1) = "\n" THEN p + 2 ELSE p + 1)
                     ELSE IF At(s, p) = "\n" THEN p + 1 ELSE p)
CodeTagContentEnd(s, c) ==
  IF c < 0 THEN NoMatch ELSE MinPos({p \in c..Len(s) : CodeEndTail(s, p) >= 0})
\* [ \t]*(?:[#\*\-]|\d+\.|>) at cursor j
BlockElementAhead(s, j) ==
  \/ At(s, Star(s, j, BlankSet)) \in {"#", "*", "-", ">"}
  \/ Lit(s, <<".">>, Plus(s, Star(s, j, BlankSet), Digits)) >= 0
\* (?=\r?\n[ \t]*(?:[#\*\-]|\d+\.|>)|(?:\r?\n){2,}|$) at cursor p
UnclosedCodeTagStop(s, p) ==
  \/ (Eol(s, p) >= 0 /\ BlockElementAhead(s, Eol(s, p)))
  \/ Eol(s, Eol(s, p)) >= 0
  \/ p = Len(s)
UnclosedCodeTagContentEnd(s, c) ==
  IF c < 0 THEN NoMatch ELSE MinPos({p \in c..Len(s) : UnclosedCodeTagStop(s, p)})
\* (?<!\x60)\x60\x60(?!\x60)
TwoBackticksEnd(s, k) ==
  IF StartsAt(s, <<"u0060","u0060">>, k) /\ At(s, k - 1) # "u0060" /\ At(s, k + 2) # "u0060" THEN k + 2 ELSE NoMatch

NormalizeRules ==
  <<"empty-fence", "fence-1c", "fence-code-tag", "empty-code-tag", "closed-code-tag-in-fence",
    "code-tag-in-fence", "fence-code-word", "closed-code-tag", "unclosed-code-tag", "two-backticks">>

\* ------------------------------------------------ processMermaidBlock
BracketChars == {"{", "}", "[", "]", "(", ")"}
\* (\w+)\{([^{}\[\]()]*?)\] and its two siblings: a node whose text is closed by the wrong bracket
TypoOpen(rule) == IF rule = "typo-brace" THEN "{" ELSE IF rule = "typo-bracket" THEN "[" ELSE "("
TypoWrongClose(rule) == IF rule = "typo-bracket" THEN "}" ELSE "]"
TypoClose(rule) == IF rule = "typo-brace" THEN "}" ELSE IF rule = "typo-bracket" THEN "]" ELSE ")"
TypoTextEnd(rule, s, k) ==
  StarNot(s, Lit(s, <<TypoOpen(rule)>>, Plus(s, k, AsciiWordChars)), BracketChars)
TypoEnd(rule, s, k) == Lit(s, <<TypoWrongClose(rule)>>, TypoTextEnd(rule, s, k))
\* (subgraph\s+[^\r\n(]+)\(([^)]+)\) : the cursor of the ( that ends group 1, and of the final )
SubgraphParen(s, k) ==
  IF Plus(s, Lit(s, <<"s","u","b","g","r","a","p","h">>, k), ReSpace) < 0 THEN NoMatch
  ELSE IndexOf(s, <<"(">>, k + 9)
SubgraphNameOk(s, k, w, p) ==
  /\ p >= k + 10
  /\ \A m \in Min(w, p - 1)..(p - 1) : At(s, m) \notin LineTerminators
SubgraphEnd(s, k) ==
  IF SubgraphParen(s, k) >= 0
     /\ SubgraphNameOk(s, k, Plus(s, k + 8, ReSpace), SubgraphParen(s, k))
  THEN Lit(s, <<")">>, PlusNot(s, SubgraphParen(s, k) + 1, {")"}))
  ELSE NoMatch

\* line.slice(i).match(/^(\w+)([\[\{\(])/)
NodeMatch(line, i) ==
  ScanWhile(line, i, AsciiWordChars) > i /\ At(line, ScanWhile(line, i, AsciiWordChars)) \in {"[", "{", "("}
CloseOf(openChar) == IF openChar = "[" THEN "]" ELSE IF openChar = "{" THEN "}" ELSE ")"
\* the look-alikes written for nested brackets
NestedOpen(openChar) == IF openChar = "[" THEN "u298B" ELSE IF openChar = "{" THEN "{" ELSE "u2985"
NestedClose(closeChar) == IF closeChar = "]" THEN "u298C" ELSE IF closeChar = "}" THEN "}" ELSE "u2986"
\* the cursor of the first character of line at or after i that is in set, or line.length
NextOf(line, i, set) == ScanWhile(line, i, Range(line) \ set)
\* while (i < line.length && innerDepth > 0) { ... }: the cursor after the loop and the content
\* kept; the characters that are neither bracket are taken a run at a time
InnerDepth(ch, innerOpen, innerClose, depth) ==
  IF ch = innerOpen THEN depth + 1 ELSE IF ch = innerClose THEN depth - 1 ELSE depth
InnerAdd(chars, ch, depth, rest) ==
  [i |-> rest.i, content |-> chars \o (IF depth > 0 THEN <<ch>> ELSE <<>>) \o rest.content]
RECURSIVE InnerScan(_, _, _, _, _)
RECURSIVE InnerStep(_, _, _, _, _, _)
InnerScan(line, i, innerOpen, innerClose, depth) ==
  IF i >= Len(line) \/ depth <= 0 THEN [i |-> i, content |-> <<>>]
  ELSE InnerStep(line, i, NextOf(line, i, {innerOpen, innerClose}), innerOpen, innerClose, depth)
InnerStep(line, i, j, innerOpen, innerClose, depth) ==
  IF j >= Len(line) THEN [i |-> Len(line), content |-> Slice(line, i, Len(line))]
  ELSE InnerAdd(Slice(line, i, j), line[j + 1], InnerDepth(line[j + 1], innerOpen, innerClose, depth),
                InnerScan(line, j + 1, innerOpen, innerClose,
                          InnerDepth(line[j + 1], innerOpen, innerClose, depth)))
\* a bracket of another kind inside the node text: true when the code replaces it
ReplacesInner(openChar, ch) ==
  (openChar = "[" /\ ch = "(") \/ (openChar = "{" /\ ch \in {"[", "("})
InnerOpenMark(ch) == IF ch = "[" THEN "u298B" ELSE "u2985"
InnerCloseMark(ch) == IF ch = "[" THEN "u298C" ELSE "u2986"
\* the characters the node loop does not copy as they are
NodeBrackets(openChar) ==
  {openChar, CloseOf(openChar)} \cup {ch \in {"[", "("} : ReplacesInner(openChar, ch)}
\* the node loop: while (i < line.length) { ... } from the opening bracket on; the cursor after
\* the loop and the node text collected; the normal characters are taken a run at a time
NodeAdd(chars, rest) == [i |-> rest.i, text |-> chars \o rest.text]
RECURSIVE NodeScan(_, _, _, _)
RECURSIVE NodeStep(_, _, _, _, _)
RECURSIVE NodeInner(_, _, _, _, _, _, _)
NodeScan(line, i, openChar, depth) ==
  NodeStep(line, i, NextOf(line, i, NodeBrackets(openChar)), openChar, depth)
NodeStep(line, i, j, openChar, depth) ==
  IF j >= Len(line) THEN [i |-> Len(line), text |-> Slice(line, i, Len(line))]
  ELSE IF line[j + 1] = openChar
    THEN NodeAdd(Slice(line, i, j) \o <<IF depth + 1 = 1 THEN openChar ELSE NestedOpen(openChar)>>,
                 NodeScan(line, j + 1, openChar, depth + 1))
  ELSE IF line[j + 1] = CloseOf(openChar)
    THEN IF depth - 1 = 0
         THEN [i |-> j + 1, text |-> Slice(line, i, j + 1)]
         ELSE NodeAdd(Slice(line, i, j) \o <<NestedClose(CloseOf(openChar))>>,
                      NodeScan(line, j + 1, openChar, depth - 1))
  ELSE NodeInner(line, i, j, openChar, depth, line[j + 1],
                 InnerScan(line, j + 1, line[j + 1], CloseOf(line[j + 1]), 1))
NodeInner(line, i, j, openChar, depth, ch, inner) ==
  NodeAdd(Slice(line, i, j) \o <<InnerOpenMark(ch)>> \o inner.content \o <<InnerCloseMark(ch)>>,
          NodeScan(line, inner.i, openChar, depth))
\* the outer loop over one line, from cursor i on: the characters before the next node
\* definition are copied
RECURSIVE FixLineFrom(_, _)
RECURSIVE FixLineAt(_, _, _)
RECURSIVE FixNode(_, _)
FixLineFrom(line, i) ==
  IF i >= Len(line) THEN <<>>
  ELSE FixLineAt(line, i, MinPos({j \in i..(Len(line) - 1) : NodeMatch(line, j)}))
FixLineAt(line, i, j) ==
  IF j < 0 THEN Slice(line, i, Len(line))
  ELSE Slice(line, i, ScanWhile(line, j, AsciiWordChars))
         \o FixNode(line, NodeScan(line, ScanWhile(line, j, AsciiWordChars),
                                   At(line, ScanWhile(line, j, AsciiWordChars)), 0))
\* result += nodeText.replace(/"/g, double prime)
FixNode(line, node) == ReplaceCh(node.text, "\"", <<"u2033">>) \o FixLineFrom(line, node.i)

\* s.split(c) for a one-character separator, and a.join(sep)
RECURSIVE Split(_, _)
Split(s, c) ==
  IF c \notin Range(s) THEN <<s>>
  ELSE <<Slice(s, 0, IndexOf(s, <<c>>, 0))>> \o Split(SubSeq(s, IndexOf(s, <<c>>, 0) + 2, Len(s)), c)
RECURSIVE Join(_, _)
Join(a, sep) ==
  IF a = <<>> THEN <<>> ELSE IF Len(a) = 1 THEN a[1] ELSE a[1] \o sep \o Join(Tail(a), sep)
FixLines(lines) == [n \in DOMAIN lines |-> FixLineFrom(lines[n], 0)]

MermaidHead == "<div class=\"mermaid-wrapper\" ...><div class=\"mermaid\" data-mermaid-code=\""
MermaidTail == "\"></div></div></div>"

\* ------------------------------------------------ the placeholders
DigitChars == <<"0","1","2","3","4","5","6","7","8","9">>
RECURSIVE Decimal(_)
Decimal(n) == IF n < 10 THEN <<DigitChars[n + 1]>> ELSE Decimal(n \div 10) \o <<DigitChars[(n % 10) + 1]>>
MarkerSign == <<"u00A7","u00A7">>
MermaidWord == <<"M","E","R","M","A","I","D">>
CodeblockWord == <<"C","O","D","E","B","L","O","C","K">>
InlinecodeWord == <<"I","N","L","I","N","E","C","O","D","E">>
\* "§§CODEBLOCK" + n + "§§" and its two siblings
Marker(word, n) == MarkerSign \o word \o Decimal(n) \o MarkerSign

PreHead == "<pre class=\"code-block\" ...><button ... data-copy-code ...>...</button><code"
PreTail == "</code></pre>"
\* [\w+-]
FenceLangChars == AsciiWordChars \cup {"+", "-"}

\* ------------------------------------------------ block and inline markup (after escaping)
\* ^(?:---+|\*\*\*+|___+)$ under gm
HrEnd(s, k) ==
  IF /\ IsLineStart(s, k) /\ At(s, k) \in {"-", "*", "_"}
     /\ ScanWhile(s, k, {At(s, k)}) >= k + 3
     /\ IsLineEnd(s, ScanWhile(s, k, {At(s, k)}))
  THEN ScanWhile(s, k, {At(s, k)}) ELSE NoMatch
\* ^>.*$(?:\n|$) under m: one quoted line from cursor j
QuoteLineEnd(s, j) ==
  IF j < Len(s) /\ IsLineStart(s, j) /\ Raw(At(s, j)) = ">"
  THEN (IF At(s, LineEnd(s, j + 1)) = "\n" THEN LineEnd(s, j + 1) + 1 ELSE LineEnd(s, j + 1))
  ELSE NoMatch
\* (...)+ : as many quoted lines as follow each other
RECURSIVE QuoteLinesEnd(_, _)
QuoteLinesEnd(s, j) ==
  IF QuoteLineEnd(s, j) < 0 THEN NoMatch
  ELSE OrElse(QuoteLinesEnd(s, QuoteLineEnd(s, j)), QuoteLineEnd(s, j))
\* line.replace(/^>\s?/, '')
StripQuoteMark(line) ==
  IF Raw(At(line, 0)) # ">" THEN line
  ELSE IF At(line, 1) \in ReSpace THEN SubSeq(line, 3, Len(line)) ELSE SubSeq(line, 2, Len(line))
StripQuoteMarks(lines) == [n \in DOMAIN lines |-> StripQuoteMark(lines[n])]
\* ^#{n} (.*)$ under gm
Hashes(n) == [m \in 1..n |-> "#"]
HeadingEnd(n, s, k) ==
  IF IsLineStart(s, k) THEN LineEnd(s, Lit(s, Hashes(n) \o <<" ">>, k)) ELSE NoMatch
HeadingLevel(rule) ==
  CASE rule = "h1" -> 1 [] rule = "h2" -> 2 [] rule = "h3" -> 3
    [] rule = "h4" -> 4 [] rule = "h5" -> 5 [] rule = "h6" -> 6
\* https?:\/\/
UrlScheme(s, k) ==
  Lit(s, <<":","/","/">>, IF At(s, Lit(s, <<"h","t","t","p">>, k)) = "s" THEN Lit(s, <<"h","t","t","p">>, k) + 1 ELSE Lit(s, <<"h","t","t","p">>, k))
\* \[([^\]]+)\]\((https?:\/\/[^\s)]+)\) : the cursors after the text, before the url and after it
LinkTextEnd(s, k) == PlusNot(s, Lit(s, <<"[">>, k), {"]"})
LinkUrlStart(s, k) == Lit(s, <<"]","(">>, LinkTextEnd(s, k))
LinkUrlEnd(s, k) == PlusNot(s, UrlScheme(s, LinkUrlStart(s, k)), ReSpace \cup {")"})
LinkEnd(s, k) == Lit(s, <<")">>, LinkUrlEnd(s, k))
AnchorOpen == <<"g<","a"," ","h","r","e","f","=","\"">>
AnchorAttrs == <<"\""," ","t","a","r","g","e","t","=","\"","_","b","l","a","n","k","\""," ","r","e","l","=","\"","n","o","o","p","e","n","e","r"," ","n","o","r","e","f","e","r","r","e","r"," ","n","o","f","o","l","l","o","w","\"","g>">>
AnchorClose == <<"g<","/","a","g>">>
\* (?<!["'\(>])(https?:\/\/[^\s<]+[^\s<.,;:!?'")\]])
AutolinkBody == ReSpace \cup {"<", "g<"}
AutolinkLast == AutolinkBody \cup {".", ",", ";", ":", "!", "?", "'", "\"", ")", "]"}
AutolinkEnd(s, k) ==
  IF Raw(At(s, k - 1)) \in {"\"", "'", "(", ">"} \/ UrlScheme(s, k) < 0 THEN NoMatch
  ELSE MaxPos({e \in (UrlScheme(s, k) + 2)..StarNot(s, UrlScheme(s, k), AutolinkBody) :
                 s[e] \notin AutolinkLast})
\* ~~([^~]+)~~ , \*\*([^*]+)\*\* , __([^_]+)__ , _([^_]+)_
EmphasisDelimiter(rule) ==
  CASE rule = "del" -> <<"~","~">> [] rule = "strong-star" -> <<"*","*">>
    [] rule = "strong-underscore" -> <<"_","_">> [] rule = "em" -> <<"_">>
EmphasisTag(rule) ==
  CASE rule = "del" -> <<"d","e","l">> [] rule = "strong-star" -> <<"s","t","r","o","n","g">>
    [] rule = "strong-underscore" -> <<"s","t","r","o","n","g">> [] rule = "em" -> <<"e","m">>
EmphasisTextEnd(rule, s, k) ==
  PlusNot(s, Lit(s, EmphasisDelimiter(rule), k), {EmphasisDelimiter(rule)[1]})
EmphasisEnd(rule, s, k) == Lit(s, EmphasisDelimiter(rule), EmphasisTextEnd(rule, s, k))
OpenTag(name) == <<"g<">> \o name \o <<"g>">>
CloseTag(name) == <<"g<", "/">> \o name \o <<"g>">>

\* ------------------------------------------------ lists
\* [ \t]*[\*\-] and [ \t]*\d+\. at cursor j: the cursor after the bullet
BulletEnd(ordered, s, j) ==
  IF ordered THEN Lit(s, <<".">>, Plus(s, Star(s, j, BlankSet), Digits))
  ELSE IF j >= 0 /\ At(s, Star(s, j, BlankSet)) \in {"*", "-"} THEN Star(s, j, BlankSet) + 1
  ELSE NoMatch
\* .+(?:\n|$) from cursor x, without the m flag
ItemTextEnd(s, x) ==
  IF LineEnd(s, x) <= x THEN NoMatch
  ELSE IF At(s, LineEnd(s, x)) = "\n" THEN LineEnd(s, x) + 1
  ELSE IF LineEnd(s, x) = Len(s) THEN Len(s) ELSE NoMatch
\* \s+.+(?:\n|$) after the bullet at b: \s+ gives back until the rest matches
ItemAfterBullet(s, b) ==
  IF Plus(s, b, ReSpace) < 0 THEN NoMatch
  ELSE ItemTextEnd(s, MaxPos({x \in (b + 1)..Plus(s, b, ReSpace) : ItemTextEnd(s, x) >= 0}))
ItemEnd(ordered, s, j) == ItemAfterBullet(s, BulletEnd(ordered, s, j))
\* (...)+ : as many items as follow each other
RECURSIVE ItemsEnd(_, _, _)
ItemsEnd(ordered, s, j) ==
  IF ItemEnd(ordered, s, j) < 0 THEN NoMatch
  ELSE OrElse(ItemsEnd(ordered, s, ItemEnd(ordered, s, j)), ItemEnd(ordered, s, j))
\* parseList: line.match(/^([ \t]*)([\*\-]|\d+\.)\s+(.+)$/) and nextLine.match(/^([ \t]*)([\*\-]|\d+\.)\s+/)
LineBulletEnd(line) ==
  IF BulletEnd(FALSE, line, 0) >= 0 THEN BulletEnd(FALSE, line, 0) ELSE BulletEnd(TRUE, line, 0)
\* the cursor where group 3 starts, or NoMatch
ItemContentStart(line) ==
  IF Plus(line, LineBulletEnd(line), ReSpace) < 0 THEN NoMatch
  ELSE MaxPos({x \in (LineBulletEnd(line) + 1)..Plus(line, LineBulletEnd(line), ReSpace) :
                 x < Len(line) /\ LineEnd(line, x) = Len(line)})
IsItemPrefix(line) == Plus(line, LineBulletEnd(line), ReSpace) >= 0
IndentOf(line) == ScanWhile(line, 0, BlankSet)
\* /^\d+\.$/.test(firstNestedMatch[1])
IsOrderedBullet(line) == At(line, LineBulletEnd(line) - 1) = "."
\* the index of the first line after i that is not nested under line i (lines are 1-based here)
NestedStop(lines, i) ==
  MinPos({j \in (i + 1)..(Len(lines) + 1) :
            j = Len(lines) + 1 \/ ~IsItemPrefix(lines[j]) \/ IndentOf(lines[j]) <= IndentOf(lines[i])})
RECURSIVE parseList(_, _)
parseList(lines, i) ==
  IF i > Len(lines) \/ ItemContentStart(lines[i]) < 0 THEN <<>>
  ELSE <<"g<","l","i","g>">> \o Slice(lines[i], ItemContentStart(lines[i]), Len(lines[i]))
       \o (IF NestedStop(lines, i) > i + 1
           THEN OpenTag(IF IsOrderedBullet(lines[i + 1]) THEN <<"o","l">> ELSE <<"u","l">>)
                  \o parseList(SubSeq(lines, i + 1, NestedStop(lines, i) - 1), 1)
                  \o CloseTag(IF IsOrderedBullet(lines[i + 1]) THEN <<"o","l">> ELSE <<"u","l">>)
           ELSE <<>>)
       \o <<"g<","/","l","i","g>">> \o parseList(lines, NestedStop(lines, i))

\* ------------------------------------------------ tables
\* \|.+\|\n from cursor j: the line starts with | , ends with | , and has a character between
TableHeaderEnd(s, j) ==
  IF /\ j >= 0 /\ At(s, j) = "|" /\ LineEnd(s, j + 1) >= j + 3
     /\ At(s, LineEnd(s, j + 1) - 1) = "|" /\ At(s, LineEnd(s, j + 1)) = "\n"
  THEN LineEnd(s, j + 1) + 1 ELSE NoMatch
\* \|.+\|\n? from cursor j: up to the last | of the line, and the newline when it follows
TableRowBar(s, j) ==
  IF j >= 0 /\ At(s, j) = "|"
  THEN MaxPos({p \in (j + 2)..(LineEnd(s, j + 1) - 1) : At(s, p) = "|"}) ELSE NoMatch
TableRowEnd(s, j) ==
  IF TableRowBar(s, j) < 0 THEN NoMatch
  ELSE IF At(s, TableRowBar(s, j) + 1) = "\n" THEN TableRowBar(s, j) + 2 ELSE TableRowBar(s, j) + 1
RECURSIVE TableRowsEnd(_, _)
TableRowsEnd(s, j) ==
  IF TableRowEnd(s, j) < 0 THEN NoMatch
  ELSE OrElse(TableRowsEnd(s, TableRowEnd(s, j)), TableRowEnd(s, j))
\* \|[\s\-:|]+\|\n(rows) from cursor h: the class gives back until |\n and the rows match
SeparatorChars == ReSpace \cup {"-", ":", "|"}
TableSeparatorBar(s, h) ==
  IF h >= 0 /\ At(s, h) = "|"
  THEN MaxPos({p \in (h + 2)..(ScanWhile(s, h + 1, SeparatorChars) - 2) :
                 At(s, p) = "|" /\ At(s, p + 1) = "\n" /\ TableRowsEnd(s, p + 2) >= 0})
  ELSE NoMatch
TableFrom(s, j) ==
  IF TableSeparatorBar(s, TableHeaderEnd(s, j)) < 0 THEN NoMatch
  ELSE TableRowsEnd(s, TableSeparatorBar(s, TableHeaderEnd(s, j)) + 2)
\* line.split('|').slice(1, -1)
Cells(line) == SubSeq(Split(line, "|"), 2, Len(Split(line, "|")) - 1)
\* the alignment a separator cell asks for
Alignment(cell) ==
  IF Trim(cell) = <<>> THEN <<>>
  ELSE IF Head(Trim(cell)) = ":" /\ Trim(cell)[Len(Trim(cell))] = ":" THEN <<"c","e","n","t","e","r">>
  ELSE IF Trim(cell)[Len(Trim(cell))] = ":" THEN <<"r","i","g","h","t">>
  ELSE IF Head(Trim(cell)) = ":" THEN <<"l","e","f","t">> ELSE <<>>
\* alignments[i] ? \x60 align="${alignments[i]}"\x60 : ''
AlignAttr(separator, i) ==
  IF i > Len(Cells(separator)) \/ Alignment(Cells(separator)[i]) = <<>> THEN <<>>
  ELSE <<" ","a","l","i","g","n","=","\"">> \o Alignment(Cells(separator)[i]) \o <<"\"">>
\* the cells of one row, each as <tag align>cell</tag>
RECURSIVE TableCells(_, _, _, _)
TableCells(tag, cells, separator, i) ==
  IF i > Len(cells) THEN <<>>
  ELSE <<"g<">> \o tag \o AlignAttr(separator, i) \o <<"g>">> \o Trim(cells[i]) \o CloseTag(tag)
       \o TableCells(tag, cells, separator, i + 1)
RECURSIVE TableBody(_, _)
TableBody(lines, i) ==
  IF i > Len(lines) THEN <<>>
  ELSE <<"g<","t","r","g>">> \o TableCells(<<"t","d">>, Cells(lines[i]), lines[2], 1) \o <<"g<","/","t","r","g>">> \o TableBody(lines, i + 1)
TableHTML(lines) ==
  <<"g<","t","a","b","l","e","g>","g<","t","h","e","a","d","g>","g<","t","r","g>">> \o TableCells(<<"t","h">>, Cells(lines[1]), lines[2], 1) \o <<"g<","/","t","r","g>","g<","/","t","h","e","a","d","g>">>
    \o <<"g<","t","b","o","d","y","g>">> \o TableBody(lines, 3) \o <<"g<","/","t","b","o","d","y","g>","g<","/","t","a","b","l","e","g>">>

\* ------------------------------------------------ paragraphs
\* md.split(/\n{2,}/)
TwoNewlines == <<"\n","\n">>
RECURSIVE SplitBlocks(_)
SplitBlocks(s) ==
  IF IndexOf(s, TwoNewlines, 0) < 0 THEN <<s>>
  ELSE <<Slice(s, 0, IndexOf(s, TwoNewlines, 0))>>
         \o SplitBlocks(SubSeq(s, ScanWhile(s, IndexOf(s, TwoNewlines, 0), {"\n"}) + 1, Len(s)))
\* the block-level openings of the test, compared as the i flag compares
BlockOpenings ==
  {<<"<","h","1">>, <<"<","h","2">>, <<"<","h","3">>, <<"<","h","4">>, <<"<","h","5">>, <<"<","h","6">>, <<"<","p","r","e">>, <<"<","u","l">>, <<"<","o","l">>, <<"<","b","l","o","c","k","q","u","o","t","e">>, <<"<","h","r">>,
   <<"<","t","a","b","l","e">>, <<"<","d","i","v"," ","c","l","a","s","s","=","\"","m","e","r","m","a","i","d","-","w","r","a","p","p","e","r","\"">>, <<"u00A7","u00A7","M","E","R","M","A","I","D">>}
RawSeq(s) == [n \in DOMAIN s |-> Raw(s[n])]
IsBlockElement(trimmed) ==
  \E w \in BlockOpenings :
    Len(w) <= Len(trimmed) /\ ToUpper(RawSeq(SubSeq(trimmed, 1, Len(w)))) = ToUpper(w)
\* a plausible slip: the line breaks of a paragraph left as they are
ParagraphNoBreak(block) ==
  IF Trim(block) = <<>> THEN <<>>
  ELSE IF IsBlockElement(Trim(block)) THEN Trim(block)
  ELSE <<"g<","p","g>">> \o Trim(block) \o <<"g<","/","p","g>">>
\* what map makes of one block
Paragraph(block) ==
  IF Trim(block) = <<>> THEN <<>>
  ELSE IF IsBlockElement(Trim(block)) THEN Trim(block)
  ELSE <<"g<","p","g>">> \o ReplaceCh(Trim(block), "\n", <<"g<","b","r","g>">>) \o <<"g<","/","p","g>">>
Paragraphs(blocks) == [n \in DOMAIN blocks |-> Paragraph(blocks[n])]

\* ------------------------------------------------ the rules with a (?:^|\n) lead and a group
\* ^ at cursor k: under the m flag for the blockquote and table rules, without it for the lists
LeadAnchor(rule, s, k) == IF rule \in {"ul", "ol"} THEN k = 0 ELSE IsLineStart(s, k)
\* the group from cursor j: where it ends, or NoMatch
GroupFrom(rule, s, j) ==
  IF j < 0 THEN NoMatch
  ELSE CASE rule = "blockquote" -> QuoteLinesEnd(s, j)
         [] rule = "ul" -> ItemsEnd(FALSE, s, j)
         [] rule = "ol" -> ItemsEnd(TRUE, s, j)
         [] rule = "table" -> TableFrom(s, j)
\* where the group starts for a match from cursor k: at k, or after the newline at k
GroupStart(rule, s, k) ==
  IF LeadAnchor(rule, s, k) /\ GroupFrom(rule, s, k) >= 0 THEN k
  ELSE IF At(s, k) = "\n" THEN k + 1 ELSE NoMatch
HeadingTag(rule) == <<"h", DigitChars[HeadingLevel(rule) + 1]>>
ListTag(rule) == IF rule = "ol" THEN <<"o","l">> ELSE <<"u","l">>
TableReplacement(group, lines) ==
  IF Len(lines) < 2 THEN group ELSE <<"\n">> \o TableHTML(lines) \o <<"\n">>
\* the cursor where the content of a fence starts: after \x60\x60\x60\r?\nmermaid\r?\n, \x60\x60\x60mermaid\r?\n
\* or \x60\x60\x60([\w+-]*)\r?\n
ContentStart(rule, s, k) ==
  CASE rule = "mermaid-bare" -> Eol(s, Lit(s, <<"m","e","r","m","a","i","d">>, Eol(s, Lit(s, Fence, k))))
    [] rule = "mermaid" -> Eol(s, Lit(s, <<"u0060","u0060","u0060","m","e","r","m","a","i","d">>, k))
    [] rule = "fence" -> Eol(s, Star(s, Lit(s, Fence, k), FenceLangChars))

\* ------------------------------------------------ String.prototype.replace
\* where the match of a rule that starts at cursor k ends, or NoMatch
MatchEnd(rule, s, k) ==
  CASE rule = "empty-fence" -> EmptyFenceEnd(s, k)
    [] rule = "fence-1c" -> Fence1cEnd(s, k)
    [] rule = "fence-code-tag" -> FenceCodeTagEnd(s, k)
    [] rule = "empty-code-tag" -> EmptyCodeTagEnd(s, k)
    [] rule = "closed-code-tag-in-fence" ->
         ClosedCodeTagTail(s, ClosedCodeTagContentEnd(s, FencedCodeTagHead(s, k)))
    [] rule = "code-tag-in-fence" -> Lit(s, Fence, FenceContentEnd(s, FencedCodeTagHead(s, k)))
    [] rule = "fence-code-word" -> FenceCodeWordEnd(s, k)
    [] rule = "closed-code-tag" -> CodeEndTail(s, CodeTagContentEnd(s, CodeTagHead(s, k)))
    [] rule = "unclosed-code-tag" -> UnclosedCodeTagContentEnd(s, CodeTagHead(s, k))
    [] rule = "two-backticks" -> TwoBackticksEnd(s, k)
    [] rule \in {"typo-brace", "typo-bracket", "typo-paren"} -> TypoEnd(rule, s, k)
    [] rule = "subgraph" -> SubgraphEnd(s, k)
    [] rule \in {"mermaid-bare", "mermaid", "fence"} -> Lit(s, Fence, FenceContentEnd(s, ContentStart(rule, s, k)))
    [] rule = "inline" -> Lit(s, <<"u0060">>, PlusNot(s, Lit(s, <<"u0060">>, k), {"u0060"}))
    [] rule = "hr" -> HrEnd(s, k)
    [] rule \in {"blockquote", "ul", "ol", "table"} -> GroupFrom(rule, s, GroupStart(rule, s, k))
    [] rule \in {"h1", "h2", "h3", "h4", "h5", "h6"} -> HeadingEnd(HeadingLevel(rule), s, k)
    [] rule = "link" -> LinkEnd(s, k)
    [] rule = "autolink" -> AutolinkEnd(s, k)
    [] rule \in {"del", "strong-star", "strong-underscore", "em"} -> EmphasisEnd(rule, s, k)
\* what replaces the match s[k..e)
Replacement(rule, s, k, e) ==
  CASE rule \in {"empty-fence", "empty-code-tag"} -> <<>>
    [] rule = "fence-1c" -> <<"u0060","u0060","u0060","1","c","\n">>
    [] rule \in {"fence-code-tag", "fence-code-word"} -> BslFence
    [] rule = "closed-code-tag-in-fence" ->
         BslFence \o Trim(Slice(s, FencedCodeTagHead(s, k), ClosedCodeTagContentEnd(s, FencedCodeTagHead(s, k))))
           \o <<"\n","u0060","u0060","u0060","\n","\n">>
    [] rule = "code-tag-in-fence" -> BslFence \o Trim(Slice(s, FencedCodeTagHead(s, k), e - 3)) \o <<"\n","u0060","u0060","u0060">>
    [] rule = "closed-code-tag" ->
         BslFence \o Trim(Slice(s, CodeTagHead(s, k), CodeTagContentEnd(s, CodeTagHead(s, k)))) \o <<"\n","u0060","u0060","u0060","\n","\n">>
    [] rule = "unclosed-code-tag" -> BslFence \o TrimEnd(Slice(s, CodeTagHead(s, k), e)) \o <<"\n","u0060","u0060","u0060","\n","\n">>
    [] rule = "two-backticks" -> Fence
    [] rule \in {"typo-brace", "typo-bracket", "typo-paren"} ->
         Slice(s, k, TypoTextEnd(rule, s, k)) \o <<TypoClose(rule)>>
    [] rule = "subgraph" ->
         Slice(s, k, SubgraphParen(s, k)) \o <<"-"," ">> \o Slice(s, SubgraphParen(s, k) + 1, e - 1)
    [] rule = "hr" -> <<"g<","h","r","g>">>
    [] rule = "blockquote" ->
         <<"\n","g<","b","l","o","c","k","q","u","o","t","e","g>">>
           \o Join(StripQuoteMarks(Split(Trim(Slice(s, GroupStart(rule, s, k), e)), "\n")), <<"g<","b","r","g>">>)
           \o <<"g<","/","b","l","o","c","k","q","u","o","t","e","g>","\n">>
    [] rule \in {"h1", "h2", "h3", "h4", "h5", "h6"} ->
         OpenTag(HeadingTag(rule)) \o Slice(s, k + HeadingLevel(rule) + 1, e) \o CloseTag(HeadingTag(rule))
    [] rule = "link" ->
         AnchorOpen \o Slice(s, LinkUrlStart(s, k), LinkUrlEnd(s, k)) \o AnchorAttrs
           \o Slice(s, k + 1, LinkTextEnd(s, k)) \o AnchorClose
    [] rule = "autolink" -> AnchorOpen \o Slice(s, k, e) \o AnchorAttrs \o Slice(s, k, e) \o AnchorClose
    [] rule \in {"del", "strong-star", "strong-underscore", "em"} ->
         OpenTag(EmphasisTag(rule))
           \o Slice(s, k + Len(EmphasisDelimiter(rule)), EmphasisTextEnd(rule, s, k))
           \o CloseTag(EmphasisTag(rule))
    [] rule \in {"ul", "ol"} ->
         <<"\n">> \o OpenTag(ListTag(rule))
           \o parseList(Split(Trim(Slice(s, GroupStart(rule, s, k), e)), "\n"), 1)
           \o CloseTag(ListTag(rule)) \o <<"\n">>
    [] rule = "table" ->
         TableReplacement(Slice(s, GroupStart(rule, s, k), e),
                          Split(Trim(Slice(s, GroupStart(rule, s, k), e)), "\n"))
\* the start of the leftmost match at or after cursor k, or NoMatch
NextMatch(rule, s, k) == MinPos({j \in k..(Len(s) - 1) : MatchEnd(rule, s, j) > j})
\* str.replace(/.../g, ...) from cursor k on: the leftmost match, then on from its end
RECURSIVE ReplaceFrom(_, _, _)
RECURSIVE ReplaceAt(_, _, _, _, _)
ReplaceFrom(rule, s, k) ==
  IF NextMatch(rule, s, k) < 0 THEN Slice(s, k, Len(s))
  ELSE ReplaceAt(rule, s, k, NextMatch(rule, s, k), MatchEnd(rule, s, NextMatch(rule, s, k)))
ReplaceAt(rule, s, k, j, e) ==
  Slice(s, k, j) \o Replacement(rule, s, j, e) \o ReplaceFrom(rule, s, e)
replaceAll(rule, s) == IF s = <<>> THEN <<>> ELSE ReplaceFrom(rule, s, 0)
\* one replaceAll after the other, in the order of rules
RECURSIVE ReplaceEach(_, _)
ReplaceEach(rules, s) ==
  IF rules = <<>> THEN s
  ELSE replaceAll(rules[Len(rules)], ReplaceEach(SubSeq(rules, 1, Len(rules) - 1), s))

\* processMermaidBlock(code): the html stored for a diagram
MermaidRules == <<"typo-brace", "typo-bracket", "typo-paren", "subgraph">>
fixedCode(code) == Join(FixLines(Split(ReplaceEach(MermaidRules, Trim(code)), "\n")), <<"\n">>)
safeCode(fixed) ==
  ReplaceCh(ReplaceCh(ReplaceCh(ReplaceCh(fixed, "&", EscAmp), "<", EscLt), ">", EscGt), "\"", EscQuot)
processMermaidBlock(code) == <<MermaidHead>> \o safeCode(fixedCode(code)) \o <<MermaidTail>>
\* the html stored for a fenced block, with the lang of its fence
FenceLang(s, k) == Slice(s, k + 3, ScanWhile(s, k + 3, FenceLangChars))
FenceClass(lang) == IF lang = <<>> THEN <<>> ELSE <<" ","c","l","a","s","s","=","\"","l","a","n","g","-">> \o ToLower(lang) \o <<"\"">>
\* the html an extraction stores for its match s[k..e)
BlockHtml(rule, s, k, e) ==
  CASE rule \in {"mermaid-bare", "mermaid"} ->
         processMermaidBlock(Trim(Slice(s, ContentStart(rule, s, k), e - 3)))
    [] rule = "fence" ->
         <<PreHead>> \o FenceClass(FenceLang(s, k)) \o <<"g>">>
           \o escapeHTML(Slice(s, ContentStart(rule, s, k), e - 3)) \o <<PreTail>>
    [] rule = "inline" -> <<"g<","c","o","d","e","g>">> \o escapeHTML(Slice(s, k + 1, e - 1)) \o <<"g<","/","c","o","d","e","g>">>
MarkerWord(rule) ==
  CASE rule \in {"mermaid-bare", "mermaid"} -> MermaidWord
    [] rule = "fence" -> CodeblockWord
    [] rule = "inline" -> InlinecodeWord
\* md.replace(/.../g, function ...) of an extraction: each match is stored in blocks and
\* replaced by the marker of its index
Extracted(md, blocks) == [md |-> md, blocks |-> blocks]
\* ... from cursor k on, when n blocks are stored: the text and the blocks this adds
Matched(chars, html, r) == Extracted(chars \o r.md, <<html>> \o r.blocks)
RECURSIVE ExtractFrom(_, _, _, _)
RECURSIVE ExtractAt(_, _, _, _, _, _)
ExtractFrom(rule, s, k, n) ==
  IF NextMatch(rule, s, k) < 0 THEN Extracted(Slice(s, k, Len(s)), <<>>)
  ELSE ExtractAt(rule, s, k, NextMatch(rule, s, k), MatchEnd(rule, s, NextMatch(rule, s, k)), n)
ExtractAt(rule, s, k, j, e, n) ==
  Matched(Slice(s, k, j) \o Marker(MarkerWord(rule), n), BlockHtml(rule, s, j, e),
          ExtractFrom(rule, s, e, n + 1))
Stored(blocks, r) == Extracted(r.md, blocks \o r.blocks)
extract(rule, md, blocks) ==
  IF md = <<>> THEN Extracted(md, blocks) ELSE Stored(blocks, ExtractFrom(rule, md, 0, Len(blocks)))

\* 3) to 5): rules, quotes and headings; 6) to 9): links and emphasis; 10), 11): lists; 12): tables
BlockRules == <<"hr", "blockquote", "h6", "h5", "h4", "h3", "h2", "h1">>
InlineRules == <<"link", "autolink", "del", "strong-star", "strong-underscore", "em">>
ListRules == <<"ul", "ol">>
TableRules == <<"table">>
\* 13): the blocks between blank lines, each a paragraph unless it opens with a block element
paragraphs(md) == Join(Paragraphs(SplitBlocks(md)), <<"\n">>)

\* the replacement patterns of replace(string, string): $$ $& $\x60 $'
RECURSIVE Substitute(_, _, _, _)
RECURSIVE SubstituteAt(_, _, _, _, _)
Substitute(repl, matched, before, after) ==
  IF "$" \notin Range(repl) THEN repl
  ELSE SubstituteAt(repl, IndexOf(repl, <<"$">>, 0), matched, before, after)
\* ... at the cursor k of the first $ of repl
SubstituteAt(repl, k, matched, before, after) ==
  Slice(repl, 0, k)
    \o (CASE At(repl, k + 1) = "$" -> <<"$">>
          [] At(repl, k + 1) = "&" -> matched
          [] At(repl, k + 1) = "u0060" -> before
          [] At(repl, k + 1) = "'" -> after
          [] OTHER -> <<"$">>)
    \o Substitute(SubSeq(repl, k + (IF At(repl, k + 1) \in {"$", "&", "u0060", "'"} THEN 3 ELSE 2), Len(repl)),
                  matched, before, after)
\* md.replace(marker, html): the first occurrence only
replaceString(md, marker, html) ==
  IF IndexOf(md, marker, 0) < 0 THEN md
  ELSE Slice(md, 0, IndexOf(md, marker, 0))
         \o Substitute(html, marker, Slice(md, 0, IndexOf(md, marker, 0)),
                       SubSeq(md, IndexOf(md, marker, 0) + Len(marker) + 1, Len(md)))
         \o SubSeq(md, IndexOf(md, marker, 0) + Len(marker) + 1, Len(md))
\* blocks.forEach((html, i) => { md = md.replace(marker(i), html) }), from index i on (1-based)
RECURSIVE restore(_, _, _, _)
restore(md, word, blocks, i) ==
  IF i > Len(blocks) THEN md
  ELSE restore(replaceString(md, Marker(word, i - 1), blocks[i]), word, blocks, i + 1)

\* ------------------------------------------------------------- the state
VARIABLES
  bcode,   \* highlightBSL: the input code
  bi,      \* highlightBSL: the cursor i
  bout,    \* highlightBSL: out
  bprev,   \* highlightBSL: the cursor at the start of the last iteration (-1: none yet)
  bpc,     \* highlightBSL: "idle" (not called), "scan" (in the loop), "done" (returned)
  xcode,   \* highlightXML: the input code
  xi,      \* highlightXML: the cursor i of the main loop
  xj,      \* highlightXML: the cursor j of the tag rule
  xout,    \* highlightXML: out
  xprev,   \* highlightXML: i at the start of the last main-loop iteration (-1: none yet)
  xprevj,  \* highlightXML: j at the start of the last attribute-loop iteration (-1: none yet)
  xpc,     \* highlightXML: "idle", "scan" (main loop), "attrs" (attribute loop head),
           \* "hang" (the attribute loop repeats an iteration that changes nothing), "done"
  dcode,   \* a detector or entry-point call: the text it is given
  dlang,   \* the call's lang argument (<<>>: absent)
  dfn,     \* the function called: "none" before the call, "idle" when none is made
  dres,    \* what the call returned
  hfence,      \* a rendered code block: the language tag of its fence (<<>>: none)
  hclassList,  \* the class names of its code element
  htext,       \* its textContent
  hinnerHTML,  \* its innerHTML
  hby,         \* the highlighters that have tokenized it
  hdetect,     \* the detectors its text has been passed to
  hruns,       \* the highlightAll runs made on its container, in order: "bsl", "xml"
  hpc,         \* "idle", "ready", or "hang" (a run that does not return)
  rarg,            \* render: the argument md as given
  rmd,             \* render: md
  rtext,           \* render: md as it is before the extractions
  rformatted,      \* render: md as it is before the restoration
  rmermaidBlocks,  \* render: mermaidBlocks
  rcodeBlocks,     \* render: codeBlocks
  rinlineCodes,    \* render: inlineCodes
  rpc,             \* render: the statement that comes next (0: not called)
  mwindow,      \* renderMermaidDiagrams: window.mermaid is there
  minitialized, \* window.__mermaidInitialized
  mdivs,        \* the .mermaid elements of the container, in document order
  mcalls,       \* the calls of renderMermaidDiagrams made so far, each with its position
  cinstalled, \* window.__onec_copy_btn_installed
  clisteners, \* the click listeners the module has added to the document
  cevents,  \* what the page has done so far, in order: the script evaluated, render called
  ftext, \* parseProceduresAndFunctions: codeElement.textContent
  flines, \* lines, the text split at newlines
  fi, \* the loop index i
  fcurrent, \* currentBlock, the block that is open (NoBlock for null)
  fblocks, \* blocks, the blocks closed so far
  foldableBlocks, \* this.foldableBlocks
  fpc,  \* where parseProceduresAndFunctions stands: idle, loop, done
  araw, \* appendMessage: bubbleWrap.dataset.raw of the current assistant bubble
  adeltas, \* the texts of the delta events handled so far
  arendered,  \* the text last handed to Markdown.render
  streaming, \* app.js: let streaming
  uiLocked, \* the argument of the last setStreamingUIState call
  buttonMode, \* send after setSendMode, stop after setStopMode
  currentEventSource, \* the stream whose es object it holds (NoStream for null)
  currentAssistantBubble, \* the bubble it holds (NoBubble for null)
  streams, \* for every startStream call, where it stands: fetch, reading, ended
  bubbles,  \* for every assistant bubble, the streams whose handlers wrote into it
  conversations, \* conversations.js: this.conversations, each with id, title and message_count
  activeId, \* conversations.js: this.activeId (NoId for null)
  localStorage, \* the keys the chat writes: the list, the active id, and per conversation the history and the file viewer state
  fileViewer, \* what window.fileViewer.getCurrentState() gives: NoFile, or an open file with the conversation it was opened in
  now, \* Date.now()
  saves,  \* the calls of saveMessageToHistory so far
  blockIndicator, \* for every block of foldableBlocks, whether block.indicator is set
  blockCollapsed, \* for every block of foldableBlocks, block.collapsed
  foldingState, \* code-folding.js: this.foldingState, line number to collapsed
  searchVisible, \* the search panel of the file viewer is open
  savedFoldingState, \* app.js: this.savedFoldingState (NoState for null, else the state in a tuple)
  storedFoldingState, \* the foldingState of the file viewer state in localStorage (NoState for none)
  collapsedAtOpen,  \* blockCollapsed as it was when openSearch was last called
  attachedFiles, \* app.js: this.attachedFiles, each with the name and the size of its file
  maxSizeKB, \* app.js: this.maxSizeKB once the configuration is loaded
  selections, \* for every handleFileSelection call, its files, the file it is reading (0 when it is over) and addedCount
  rendered   \* the items renderAttachedFiles last put on the page

bslVars == <<bcode, bi, bout, bprev, bpc>>
xmlVars == <<xcode, xi, xj, xout, xprev, xprevj, xpc>>
detectVars == <<dcode, dlang, dfn, dres>>
hlVars == <<hfence, hclassList, htext, hinnerHTML, hby, hdetect, hruns, hpc>>
renderVars == <<rarg, rmd, rtext, rformatted, rmermaidBlocks, rcodeBlocks, rinlineCodes, rpc>>
diagramVars == <<mwindow, minitialized, mdivs, mcalls>>
copyVars == <<cinstalled, clisteners, cevents>>
foldVars == <<ftext, flines, fi, fcurrent, fblocks, foldableBlocks, fpc>>
appendVars == <<araw, adeltas, arendered>>
chatVars == <<streaming, uiLocked, buttonMode, currentEventSource, currentAssistantBubble, streams, bubbles>>
convVars == <<conversations, activeId, localStorage, fileViewer, now, saves>>
foldingVars == <<blockIndicator, blockCollapsed, foldingState, searchVisible, savedFoldingState, storedFoldingState, collapsedAtOpen>>
attachVars == <<attachedFiles, maxSizeKB, selections, rendered>>
vars == <<bslVars, xmlVars, detectVars, hlVars, renderVars, diagramVars, copyVars, foldVars, appendVars, chatVars, convVars, foldingVars, attachVars>>

BslIdle == bcode = <<>> /\ bi = 0 /\ bout = <<>> /\ bprev = -1 /\ bpc = "idle"

XmlIdle ==
  xcode = <<>> /\ xi = 0 /\ xj = 0 /\ xout = <<>> /\ xprev = -1 /\ xprevj = -1 /\ xpc = "idle"
DetectIdle == dcode = <<>> /\ dlang = <<>> /\ dfn = "idle" /\ dres = [kind |-> "none", html |-> <<>>]
HlIdle ==
  /\ hfence = <<>> /\ hclassList = <<>> /\ htext = <<>> /\ hinnerHTML = <<>>
  /\ hby = {} /\ hdetect = {} /\ hruns = <<>> /\ hpc = "idle"
DiagramIdle == mwindow = FALSE /\ minitialized = FALSE /\ mdivs = <<>> /\ mcalls = <<>>
CopyIdle == cinstalled = FALSE /\ clisteners = 0 /\ cevents = <<>>
\* null in a field that holds a line number otherwise, and currentBlock when no block is open
Null == -1
NoBlock == [blockType |-> "none", startLine |-> Null, endLine |-> Null, signature |-> <<>>,
            relatedProcedureLine |-> Null]
FoldIdle ==
  /\ ftext = <<>> /\ flines = <<>> /\ fi = 0 /\ fcurrent = NoBlock /\ fblocks = <<>>
  /\ foldableBlocks = <<>> /\ fpc = "idle"
AppendIdle == araw = <<>> /\ adeltas = <<>> /\ arendered = <<>>
\* null in currentEventSource and in currentAssistantBubble
NoStream == 0
NoBubble == 0
ChatIdle == streaming = FALSE /\ uiLocked = FALSE /\ buttonMode = "send" /\ currentEventSource = NoStream /\ currentAssistantBubble = NoBubble /\ streams = <<>> /\ bubbles = <<>>
\* null in activeId and under the active key; no file open in the viewer
NoId == <<>>
NoFile == <<>>
\* localStorage with none of the chat's keys
EmptyStorage == [list |-> <<>>, active |-> NoId, history |-> <<>>, fileviewer |-> <<>>]
ConvIdle == conversations = <<>> /\ activeId = NoId /\ localStorage = EmptyStorage /\ fileViewer = NoFile /\ now = 0 /\ saves = 0
\* null for a folding state
NoState == <<>>
FoldingIdle == blockIndicator = <<>> /\ blockCollapsed = <<>> /\ foldingState = <<>> /\ searchVisible = FALSE /\ savedFoldingState = NoState /\ storedFoldingState = NoState /\ collapsedAtOpen = <<>>
AttachIdle == attachedFiles = <<>> /\ maxSizeKB = 0 /\ selections = <<>> /\ rendered = 0
RenderIdle ==
  /\ rarg = <<>> /\ rmd = <<>> /\ rtext = <<>> /\ rformatted = <<>>
  /\ rmermaidBlocks = <<>> /\ rcodeBlocks = <<>> /\ rinlineCodes = <<>> /\ rpc = 0

\* ------------------------------------------- highlightBSL as a state machine
\* the characters of the tokenizer inputs: every rule's opener, and what follows it
BslAlphabet == {"\"", "'", "/", "\n", "#", "&", "1", "-", ".", "e", "(", ")", "<", "=", " ", "a"}
\* identifiers of each vocabulary (a keyword, an upper-case-only keyword, a type, a builtin,
\* and the word that is keyword and builtin and comes before types), and what stands around them
BslWordAtoms ==
  {<<"D","o">>, <<"u041A","u041E","u0413","u0414","u0410">>,
   <<"u041A","u043E","u0433","u0434","u0430">>, <<"u043A","u043E","u0433","u0434","u0430">>,
   <<"A","r","r","a","y">>,
   <<"a","b","s">>, <<"u041D","u043E","u0432","u044B","u0439">>, <<".">>, <<" ">>, <<"(">>}
\* the pieces of quoted literals: delimiters, doubled delimiters, digits of a date and of a
\* time, and what a literal may hold
BslQuoteAtoms ==
  {<<"\"">>, <<"'">>, <<"\"","\"">>, <<"'","'">>, <<"'","2","0","2","5","0","1","0","1">>,
   <<"1","2","0","0","0","0">>, <<"1">>, <<"a">>, <<"/","/">>, <<"\n">>}
BslInputs ==
  SeqsUpTo(BslAlphabet, MaxLen) \cup {Flatten(w) : w \in SeqsUpTo(BslWordAtoms, MaxWords)}
    \cup {Flatten(w) : w \in SeqsUpTo(BslQuoteAtoms, MaxWords)}

\* highlightBSL is called on some code
InitBSL ==
  /\ bcode \in BslInputs
  /\ bi = 0 /\ bout = <<>> /\ bprev = -1 /\ bpc = "scan"
  /\ XmlIdle /\ DetectIdle /\ HlIdle /\ RenderIdle /\ DiagramIdle /\ CopyIdle /\ FoldIdle /\ AppendIdle /\ ChatIdle /\ ConvIdle /\ FoldingIdle /\ AttachIdle

\* one iteration of the main loop, taken by the given rule
BslIteration(rule) ==
  /\ bpc = "scan" /\ bi < Len(bcode)
  /\ BslRule(bcode, bi) = rule
  /\ LET st == BslStep(bcode, bi)
     IN /\ bprev' = bi
        /\ bi' = st.next
        /\ bout' = bout \o st.html
  /\ UNCHANGED <<bcode, bpc, xmlVars, detectVars, hlVars, renderVars, diagramVars, copyVars, foldVars, appendVars, chatVars, convVars, foldingVars, attachVars>>

BslString == BslIteration("string")
BslComment == BslIteration("comment")
BslPreproc == BslIteration("preproc")
BslAttr == BslIteration("attr")
BslNumber == BslIteration("number")
BslWord == BslIteration("word")
BslOperator == BslIteration("operator")
BslDefault == BslIteration("default")
\* while (i < len) fails: return out
BslReturn ==
  /\ bpc = "scan" /\ bi >= Len(bcode)
  /\ bpc' = "done"
  /\ UNCHANGED <<bcode, bi, bout, bprev, xmlVars, detectVars, hlVars, renderVars, diagramVars, copyVars, foldVars, appendVars, chatVars, convVars, foldingVars, attachVars>>

NextBSL ==
  \/ BslString \/ BslComment \/ BslPreproc \/ BslAttr \/ BslNumber
  \/ BslWord \/ BslOperator \/ BslDefault \/ BslReturn

SpecBSL == InitBSL /\ [][NextBSL]_vars

\* C1: at every point of highlightBSL's scan, and so when it returns, the text
\* content of out (span tags dropped, entities decoded) is exactly the input up
\* to the cursor, and every iteration has moved the cursor forward, within the input.
BslTotalCoverage ==
  /\ bprev < bi
  /\ bi <= Len(bcode)
  /\ TextContent(bout) = Slice(bcode, 0, bi)
  /\ (bpc = "done" => bi = Len(bcode) /\ bout = highlightBSL(bcode))
\* highlightBSL has returned on an input with an escaped character inside a literal
BslCoverageWitness ==
  /\ bpc = "done" /\ Len(bcode) = MaxLen
  /\ bcode[1] = "\"" /\ "&" \in Range(bcode)
  /\ TextContent(bout) = bcode

\* C12: an identifier that stands right after a dot is appended to out as it is, in no
\* span (so in none of tok-k, tok-type, tok-builtin), whatever vocabulary it belongs to,
\* whatever its letter case and whatever stands before the dot.
MemberNamePlain ==
  [][(bpc = "scan" /\ bi < Len(bcode) /\ BslRule(bcode, bi) = "word" /\ IsAfterDot(bcode, bi))
       => bout' = bout \o Slice(bcode, bi, bi')]_vars
\* highlightBSL has returned on the name of a type after a dot after the word for new
MemberNameScanned ==
  /\ bpc = "done"
  /\ bcode = <<"u041D","u043E","u0432","u044B","u0439">> \o <<".">> \o <<"A","r","r","a","y">>

\* ------------------------------------------- highlightXML as a state machine
\* the characters the tag and attribute rules tell apart
XmlAlphabet == {"<", ">", "/", "=", "&", "\"", "'", " ", "a", ";", "?", "#"}
\* the openers and closers of the regions that run to the end of the input when unclosed
XmlAtoms == {CommentOpen, CommentClose, CdataOpen, CdataClose, DoctypeOpen,
             <<"<","!","d","o","c","t","y","p","e">>, <<"<","?">>, <<"<","?","x","m","l">>,
             PiClose, <<"<">>, <<">">>, <<" ">>, <<"a">>}
\* the pieces of a tag with attributes, well formed and not
XmlTagAtoms == {<<"<","a"," ">>, <<"b","=">>, <<"\"","v","\"">>, <<"'","v">>, <<">">>,
                <<"/",">">>, <<"/">>, <<"\"">>, <<" ">>, <<"b">>, <<"=">>}
XmlInputs ==
  SeqsUpTo(XmlAlphabet, MaxXmlLen)
    \cup {Flatten(s) : s \in SeqsUpTo(XmlAtoms, MaxXmlLen)}
    \cup {Flatten(s) : s \in SeqsUpTo(XmlTagAtoms, MaxXmlLen)}

\* highlightXML is called on some code
InitXML ==
  /\ xcode \in XmlInputs
  /\ xi = 0 /\ xj = 0 /\ xout = <<>> /\ xprev = -1 /\ xprevj = -1 /\ xpc = "scan"
  /\ BslIdle /\ DetectIdle /\ HlIdle /\ RenderIdle /\ DiagramIdle /\ CopyIdle /\ FoldIdle /\ AppendIdle /\ ChatIdle /\ ConvIdle /\ FoldingIdle /\ AttachIdle

\* one iteration of the main loop by a rule that is not the tag rule
XmlIteration(rule) ==
  /\ xpc = "scan" /\ xi < Len(xcode)
  /\ XmlRule(xcode, xi) = rule
  /\ LET st == XmlSimpleStep(xcode, xi)
     IN /\ xprev' = xi
        /\ xi' = st.next
        /\ xout' = xout \o st.html
  /\ UNCHANGED <<xcode, xj, xprevj, xpc, bslVars, detectVars, hlVars, renderVars, diagramVars, copyVars, foldVars, appendVars, chatVars, convVars, foldingVars, attachVars>>

XmlComment == XmlIteration("comment")
XmlCdata == XmlIteration("cdata")
XmlDoctype == XmlIteration("doctype")
XmlPi == XmlIteration("pi")
XmlEntity == XmlIteration("entity")
XmlDefault == XmlIteration("default")

\* the tag rule on a closing tag: head and tail, no attribute loop
XmlClosingTag ==
  /\ xpc = "scan" /\ xi < Len(xcode)
  /\ XmlRule(xcode, xi) = "tag"
  /\ LET head == XmlTagHead(xcode, xi)
         tail == XmlTagTail(xcode, head.next)
     IN /\ head.isClosing
        /\ xprev' = xi
        /\ xi' = tail.next
        /\ xout' = xout \o head.html \o tail.html
  /\ UNCHANGED <<xcode, xj, xprevj, xpc, bslVars, detectVars, hlVars, renderVars, diagramVars, copyVars, foldVars, appendVars, chatVars, convVars, foldingVars, attachVars>>

\* the tag rule on an opening tag: the head, then on to the attribute loop
XmlTagOpen ==
  /\ xpc = "scan" /\ xi < Len(xcode)
  /\ XmlRule(xcode, xi) = "tag"
  /\ LET head == XmlTagHead(xcode, xi)
     IN /\ ~head.isClosing
        /\ xj' = head.next
        /\ xout' = xout \o head.html
  /\ xprevj' = -1
  /\ xpc' = "attrs"
  /\ UNCHANGED <<xcode, xi, xprev, bslVars, detectVars, hlVars, renderVars, diagramVars, copyVars, foldVars, appendVars, chatVars, convVars, foldingVars, attachVars>>

\* one iteration of the attribute loop; an iteration that moves nothing is repeated for ever
XmlAttribute ==
  /\ xpc = "attrs"
  /\ XmlAttrLoop(xcode, xj)
  /\ LET st == XmlAttrIteration(xcode, xj)
     IN /\ xprevj' = xj
        /\ xj' = st.next
        /\ xout' = xout \o st.html
        /\ xpc' = IF st.next = xj THEN "hang" ELSE "attrs"
  /\ UNCHANGED <<xcode, xi, xprev, bslVars, detectVars, hlVars, renderVars, diagramVars, copyVars, foldVars, appendVars, chatVars, convVars, foldingVars, attachVars>>

\* the attribute loop ends: the tail of the tag, i = j, back to the main loop
XmlTagClose ==
  /\ xpc = "attrs"
  /\ ~XmlAttrLoop(xcode, xj)
  /\ LET tail == XmlTagTail(xcode, xj)
     IN /\ xi' = tail.next
        /\ xout' = xout \o tail.html
  /\ xprev' = xi
  /\ xpc' = "scan"
  /\ UNCHANGED <<xcode, xj, xprevj, bslVars, detectVars, hlVars, renderVars, diagramVars, copyVars, foldVars, appendVars, chatVars, convVars, foldingVars, attachVars>>

\* while (i < len) fails: return out
XmlReturn ==
  /\ xpc = "scan" /\ xi >= Len(xcode)
  /\ xpc' = "done"
  /\ UNCHANGED <<xcode, xi, xj, xout, xprev, xprevj, bslVars, detectVars, hlVars, renderVars, diagramVars, copyVars, foldVars, appendVars, chatVars, convVars, foldingVars, attachVars>>

NextXML ==
  \/ XmlComment \/ XmlCdata \/ XmlDoctype \/ XmlPi \/ XmlEntity \/ XmlDefault
  \/ XmlClosingTag \/ XmlTagOpen \/ XmlAttribute \/ XmlTagClose \/ XmlReturn

SpecXML == InitXML /\ [][NextXML]_vars

\* C2: highlightXML terminates on every input: every iteration of the main loop
\* and of the attribute loop strictly advances its cursor.
XmlEveryIterationAdvances ==
  /\ xpc \in {"scan", "done"} => xprev < xi
  /\ xpc \in {"attrs", "hang"} => xprevj < xj
\* the attribute loop stands at a character that starts no attribute
XmlStalled == xpc = "hang" /\ xprevj = xj

\* C3: whenever highlightXML returns, the text content of what it emitted is the
\* input exactly, and a comment, CDATA section, DOCTYPE or processing instruction
\* that is never closed is one span running to the end of the input.
Count(s, c) == Cardinality({k \in DOMAIN s : s[k] = c})
\* after the opener, no '>' brings the nesting depth back to zero
DoctypeUnclosed(code) ==
  \A k \in 9..Len(code) :
    Count(SubSeq(code, 10, k), ">") <= Count(SubSeq(code, 10, k), "<")
XmlUnclosedRegion(code) ==
  \/ StartsAt(code, CommentOpen, 0) /\ ~Contains(SubSeq(code, 5, Len(code)), CommentClose)
  \/ StartsAt(code, CdataOpen, 0) /\ ~Contains(SubSeq(code, 10, Len(code)), CdataClose)
  \/ StartsAt(ToUpper(code), DoctypeOpen, 0) /\ DoctypeUnclosed(code)
  \/ StartsAt(code, <<"<","?">>, 0) /\ ~Contains(SubSeq(code, 3, Len(code)), PiClose)
XmlCoverageOnReturn ==
  xpc = "done" =>
    /\ TextContent(xout) = xcode
    /\ xout = highlightXML(xcode).html
    /\ XmlUnclosedRegion(xcode) =>
         /\ Len(xout) >= 2
         /\ IsSpanTag(xout[1]) /\ xout[Len(xout)] = SpanClose
         /\ Len(SelectSeq(xout, IsSpanTag)) = 2
\* highlightXML has returned on a comment that is never closed
XmlCoverageWitness ==
  /\ xpc = "done"
  /\ StartsAt(xcode, CommentOpen, 0) /\ Len(xcode) > 4
  /\ XmlUnclosedRegion(xcode)
\* --------------------------------- the detectors and entry points, called on a text
\* the declaration keywords in both spellings, as written and in upper case
StrongMarkers == ReProcedure \cup ReFunction \cup ReEndProcedure \cup ReEndFunction
DetectBslAtoms ==
  StrongMarkers \cup {ToUpper(w) : w \in ReProcedure} \cup {ToLower(w) : w \in ReFunction}
    \cup {<<" ">>, <<"(">>, <<"\n">>, <<"x">>, <<"D","o">>, <<"M","a","p">>}
DetectXmlAtoms ==
  {<<"<","a",">">>, <<"<","/","a",">">>, <<"<","a"," ">>, <<"/">>, <<"<","?","x","m","l"," ">>,
   <<"x">>, <<"&","l","t",";">>, <<"<","b","/",">">>, <<"c","=","\"","d","\"">>, <<">">>}
DetectInputs ==
  {Flatten(s) : s \in SeqsUpTo(DetectBslAtoms, MaxDetectLen)}
    \cup {Flatten(s) : s \in SeqsUpTo(DetectXmlAtoms, MaxDetectLen)}
\* the lang argument: absent, the forcing tags in several cases, other tags
LangTags == {<<>>, <<"b","s","l">>, <<"B","s","L">>, <<"1","c">>, <<"1","C">>,
             <<"x","m","l">>, <<"X","m","L">>, <<"t","e","x","t">>, <<"b","s","l","x">>}

InitDetect ==
  /\ dcode \in DetectInputs
  /\ dlang = <<>> /\ dfn = "none" /\ dres = ResultNone
  /\ BslIdle /\ XmlIdle /\ HlIdle /\ RenderIdle /\ DiagramIdle /\ CopyIdle /\ FoldIdle /\ AppendIdle /\ ChatIdle /\ ConvIdle /\ FoldingIdle /\ AttachIdle

CallLikelyBSL ==
  /\ dfn = "none"
  /\ dfn' = "likelyBSL" /\ dres' = ResultBool(likelyBSL(dcode))
  /\ UNCHANGED <<dcode, dlang, bslVars, xmlVars, hlVars, renderVars, diagramVars, copyVars, foldVars, appendVars, chatVars, convVars, foldingVars, attachVars>>
CallLikelyXML ==
  /\ dfn = "none"
  /\ dfn' = "likelyXML" /\ dres' = ResultBool(likelyXML(dcode))
  /\ UNCHANGED <<dcode, dlang, bslVars, xmlVars, hlVars, renderVars, diagramVars, copyVars, foldVars, appendVars, chatVars, convVars, foldingVars, attachVars>>
CallBslHighlight ==
  /\ dfn = "none"
  /\ \E lang \in LangTags :
       /\ dlang' = lang
       /\ dres' = BSL_highlight(dcode, lang)
  /\ dfn' = "BSL.highlight"
  /\ UNCHANGED <<dcode, bslVars, xmlVars, hlVars, renderVars, diagramVars, copyVars, foldVars, appendVars, chatVars, convVars, foldingVars, attachVars>>
CallXmlHighlight ==
  /\ dfn = "none"
  /\ \E lang \in LangTags :
       /\ dlang' = lang
       /\ dres' = XML_highlight(dcode, lang)
  /\ dfn' = "XML.highlight"
  /\ UNCHANGED <<dcode, bslVars, xmlVars, hlVars, renderVars, diagramVars, copyVars, foldVars, appendVars, chatVars, convVars, foldingVars, attachVars>>

NextDetect == CallLikelyBSL \/ CallLikelyXML \/ CallBslHighlight \/ CallXmlHighlight

SpecDetect == InitDetect /\ [][NextDetect]_vars

\* C8: a lang equal to bsl or 1c (BSL.highlight), or to xml (XML.highlight), in any
\* letter case, always yields a tokenized, non-null result; without such a lang the
\* result is null exactly when the detector's score is below 2.
ExplicitTagForces ==
  /\ dfn = "BSL.highlight" =>
       IF ToLower(dlang) \in {<<"b","s","l">>, <<"1","c">>}
       THEN dres = ResultHtml(highlightBSL(dcode))
       ELSE (dres = ResultNull) <=> (BslScore(dcode) < 2)
  /\ dfn = "XML.highlight" =>
       IF ToLower(dlang) = <<"x","m","l">>
       THEN dres.kind = "html"
       ELSE (dres = ResultNull) <=> (XmlScore(dcode) < 2)

\* a letter, digit or underscore of either alphabet
IdentifierChars == LatinLetters \cup CyrLetters \cup Digits \cup {"_"}
\* the text holds a declaration keyword, in any letter case, as a whole word:
\* delimited by whitespace, punctuation or the boundaries of the text
HasStrongMarker(text) ==
  \E w \in StrongMarkers, k \in 0..Len(text) :
    /\ k + Len(w) <= Len(text)
    /\ ToLower(SubSeq(text, k + 1, k + Len(w))) = ToLower(w)
    /\ At(text, k - 1) \notin IdentifierChars
    /\ At(text, k + Len(w)) \notin IdentifierChars
\* C10: likelyBSL is positive on every text that holds one strong structural marker
\* (Процедура/Procedure, Функция/Function, КонецПроцедуры/EndProcedure,
\* КонецФункции/EndFunction) as a whole word, in either spelling and any letter case.
StrongMarkerDetected ==
  (dfn = "likelyBSL" /\ HasStrongMarker(dcode)) => dres = ResultBool(TRUE)

\* the fence tags of the rendered blocks (<<>>: a fence without a tag)
FenceTags == {<<>>, <<"b","s","l">>, <<"B","S","L">>, <<"1","c">>, <<"x","m","l">>,
              <<"t","e","x","t">>, <<"p","y","t","h","o","n">>, <<"j","s","o","n">>,
              <<"x","m","l","-","r","p","c">>}
BlockAtoms ==
  {<<"P","r","o","c","e","d","u","r","e">>, <<" ">>, <<"x">>, <<"D","o">>,
   <<"<","a",">">>, <<"<","/","a",">">>, <<"<","a"," ","/">>}
BlockTexts == {Flatten(s) : s \in SeqsUpTo(BlockAtoms, MaxBlockLen)}

InitHighlightAll ==
  /\ hfence \in FenceTags
  /\ hclassList = codeClass(hfence)
  /\ htext \in BlockTexts
  /\ hinnerHTML = escapeHTML(htext)
  /\ hby = {} /\ hdetect = {} /\ hruns = <<>> /\ hpc = "ready"
  /\ BslIdle /\ XmlIdle /\ DetectIdle /\ RenderIdle /\ DiagramIdle /\ CopyIdle /\ FoldIdle /\ AppendIdle /\ ChatIdle /\ ConvIdle /\ FoldingIdle /\ AttachIdle

\* a plausible slip: the check for the class lang-xml left out
BslHighlightAllNoSkip(autodetect) ==
  /\ hpc = "ready" /\ Len(hruns) < MaxRuns
  /\ hruns' = Append(hruns, "bsl")
  /\ \E forced \in {BslForced(hclassList)},
        skip \in {htext = <<>>} :
       \E detect \in {~skip /\ ~forced /\ autodetect} :
         \E doIt \in {~skip /\ (forced \/ (detect /\ likelyBSL(htext)))} :
           \E html \in {IF doIt THEN BSL_highlight(htext, IF forced THEN <<"b","s","l">> ELSE <<>>)
                        ELSE ResultNone} :
             /\ hdetect' = IF detect THEN hdetect \cup {"likelyBSL"} ELSE hdetect
             /\ IF html.kind = "html"
                THEN /\ hinnerHTML' = html.html
                     /\ htext' = TextContent(html.html)
                     /\ hclassList' = classListAdd(hclassList, LangBsl)
                     /\ hby' = hby \cup {"bsl"}
                ELSE UNCHANGED <<hinnerHTML, htext, hclassList, hby>>
  /\ UNCHANGED <<hfence, hpc, bslVars, xmlVars, detectVars, renderVars, diagramVars, copyVars, foldVars, appendVars, chatVars, convVars, foldingVars, attachVars>>
\* BSL.highlightAll(container, {autodetect}) on the container's one "pre code" element
BslHighlightAll(autodetect) ==
  /\ hpc = "ready" /\ Len(hruns) < MaxRuns
  /\ hruns' = Append(hruns, "bsl")
  /\ \E forced \in {BslForced(hclassList)},
        skip \in {htext = <<>> \/ contains(hclassList, LangXml)} :
       \E detect \in {~skip /\ ~forced /\ autodetect} :
         \E doIt \in {~skip /\ (forced \/ (detect /\ likelyBSL(htext)))} :
           \E html \in {IF doIt THEN BSL_highlight(htext, IF forced THEN <<"b","s","l">> ELSE <<>>)
                        ELSE ResultNone} :
             /\ hdetect' = IF detect THEN hdetect \cup {"likelyBSL"} ELSE hdetect
             /\ IF html.kind = "html"
                THEN /\ hinnerHTML' = html.html
                     /\ htext' = TextContent(html.html)
                     /\ hclassList' = classListAdd(hclassList, LangBsl)
                     /\ hby' = hby \cup {"bsl"}
                ELSE UNCHANGED <<hinnerHTML, htext, hclassList, hby>>
  /\ UNCHANGED <<hfence, hpc, bslVars, xmlVars, detectVars, renderVars, diagramVars, copyVars, foldVars, appendVars, chatVars, convVars, foldingVars, attachVars>>

\* XML.highlightAll(container, {autodetect}) on the container's one "pre code" element
XmlHighlightAll(autodetect) ==
  /\ hpc = "ready" /\ Len(hruns) < MaxRuns
  /\ hruns' = Append(hruns, "xml")
  /\ \E forced \in {XmlForced(hclassList)},
        skip \in {htext = <<>> \/ contains(hclassList, LangBsl) \/ contains(hclassList, Lang1c)} :
       \E detect \in {~skip /\ ~forced /\ autodetect} :
         \E doIt \in {~skip /\ (forced \/ (detect /\ likelyXML(htext)))} :
           \E html \in {IF doIt THEN XML_highlight(htext, IF forced THEN <<"x","m","l">> ELSE <<>>)
                        ELSE ResultNone} :
             /\ hdetect' = IF detect THEN hdetect \cup {"likelyXML"} ELSE hdetect
             /\ hpc' = IF html.kind = "hang" THEN "hang" ELSE hpc
             /\ IF html.kind = "html"
                THEN /\ hinnerHTML' = html.html
                     /\ htext' = TextContent(html.html)
                     /\ hclassList' = classListAdd(hclassList, LangXml)
                     /\ hby' = hby \cup {"xml"}
                ELSE UNCHANGED <<hinnerHTML, htext, hclassList, hby>>
  /\ UNCHANGED <<hfence, bslVars, xmlVars, detectVars, renderVars, diagramVars, copyVars, foldVars, appendVars, chatVars, convVars, foldingVars, attachVars>>

NextHighlightAll ==
  \E autodetect \in BOOLEAN : BslHighlightAll(autodetect) \/ XmlHighlightAll(autodetect)

SpecHighlightAll == InitHighlightAll /\ [][NextHighlightAll]_vars

\* C9: a block whose fence carries an explicit tag is never passed to likelyBSL or
\* likelyXML, and is tokenized by BSL.highlightAll only when the tag is bsl or 1c, by
\* XML.highlightAll only when the tag is xml.
DetectionOnlyUntagged ==
  hfence # <<>> =>
    /\ hdetect = {}
    /\ "bsl" \in hby => ToLower(hfence) \in {<<"b","s","l">>, <<"1","c">>}
    /\ "xml" \in hby => ToLower(hfence) = <<"x","m","l">>

\* the block carries the class of the highlighter other than the one of the given run
CarriesOther(run) ==
  IF run = "bsl" THEN contains(hclassList, LangXml)
  ELSE contains(hclassList, LangBsl) \/ contains(hclassList, Lang1c)
\* C11: whatever runs of BSL.highlightAll and XML.highlightAll are made on a block, in any
\* order and number, the block is never tokenized by both highlighters, and a run on a block
\* that carries the other highlighter's class (lang-xml; lang-bsl or lang-1c) leaves its
\* markup, its text and its classes as they are.
SingleHighlighter ==
  [][/\ ~({"bsl", "xml"} \subseteq hby')
     /\ (hruns' # hruns /\ CarriesOther(hruns'[Len(hruns')]))
          => UNCHANGED <<hinnerHTML, htext, hclassList, hby>>]_vars
\* XML.highlightAll has tokenized an untagged block, and BSL.highlightAll has run after it
SkippedAfterOther == hfence = <<>> /\ hby = {"xml"} /\ hruns = <<"xml", "bsl">>

\* ------------------------------------------------------------- Markdown.render
\* markdown.js render(md), statement by statement

ScriptTag == <<"<","s","c","r","i","p","t",">">>
\* text without markup: letters, blanks, line breaks and the characters escapeHTML replaces
PlainAtoms == {<<"a">>, <<" ">>, <<"\n">>, ScriptTag, <<"&">>}
PlainInputs == {Flatten(w) : w \in SeqsUpTo(PlainAtoms, MaxPlainLen)}
\* markup: code spans, fenced blocks, diagrams, a link, a table, an address, and text that
\* reads like a placeholder
Segments ==
  { <<"a">>, <<"\n">>,
    <<"u0060","<","s","c","r","i","p","t",">","u0060">>,
    <<"u0060","u0060","u0060","\n","<","s","c","r","i","p","t",">","&","\n","u0060","u0060","u0060">>,
    <<"u0060","u0060","u0060","m","e","r","m","a","i","d","\n","A","[","<","s","c","r","i","p","t",">","]","\n","u0060","u0060","u0060">>,
    <<"[","<","s","c","r","i","p","t",">","]","(","h","t","t","p",":","/","/","a",")">>,
    <<"|","<","s","c","r","i","p","t",">","|","\n","|","-","|","\n">>,
    <<"h","t","t","p",":","/","/","a","&">>,
    <<"u0060","u0060","u0060","j","s","\n","$","&","\n","u0060","u0060","u0060">>,
    <<"u0060","$","$","u0060">>,
    <<"u0060","u0060","u0060","\n","$","u0060","\n","u0060","u0060","u0060">>,
    <<"u0060","u0060","u0060","m","e","r","m","a","i","d","\n","$","'","\n","u0060","u0060","u0060">>,
    <<"u00A7","u00A7","C","O","D","E","B","L","O","C","K","0","u00A7","u00A7">>,
    <<"u00A7","u00A7","I","N","L","I","N","E","C","O","D","E","0","u00A7","u00A7">> }
SegmentInputs == {Flatten(w) : w \in SeqsUpTo(Segments, MaxSegments)}
RenderInputs == PlainInputs \cup SegmentInputs

\* the statements of render after its first, in the order they are executed: the rule of
\* a replace or of an extraction, or the name of another statement
Statements ==
  NormalizeRules \o <<"mermaid-bare", "mermaid", "fence", "inline", "escape">>
    \o BlockRules \o InlineRules \o ListRules \o TableRules
    \o <<"paragraphs", "restore-code", "restore-mermaid", "restore-inline">>
ExtractRules == {"mermaid-bare", "mermaid", "fence", "inline"}
RestoreRules == {"restore-code", "restore-mermaid", "restore-inline"}
ReplaceRules == Range(Statements) \ (ExtractRules \cup RestoreRules \cup {"escape", "paragraphs"})
\* rpc past the last statement: md is returned
ReturnPc == Len(Statements) + 1
Statement == IF rpc \in DOMAIN Statements THEN Statements[rpc] ELSE "none"

InitRender ==
  /\ rarg \in RenderInputs
  /\ rmd = rarg
  /\ rtext = <<>> /\ rformatted = <<>>
  /\ rmermaidBlocks = <<>> /\ rcodeBlocks = <<>> /\ rinlineCodes = <<>>
  /\ rpc = 1
  /\ BslIdle /\ XmlIdle /\ DetectIdle /\ HlIdle /\ DiagramIdle /\ CopyIdle /\ FoldIdle /\ AppendIdle /\ ChatIdle /\ ConvIdle /\ FoldingIdle /\ AttachIdle

\* if (!md) return ""
ReturnEmpty ==
  /\ rpc = 1 /\ rmd = <<>>
  /\ rpc' = ReturnPc
  /\ UNCHANGED <<rarg, rmd, rtext, rformatted, rmermaidBlocks, rcodeBlocks, rinlineCodes>>
  /\ UNCHANGED <<bslVars, xmlVars, detectVars, hlVars, diagramVars, copyVars, foldVars, appendVars, chatVars, convVars, foldingVars, attachVars>>

\* a statement that rewrites md only
Rewrite(text) ==
  /\ ~(rpc = 1 /\ rmd = <<>>)
  /\ rmd' = text
  /\ rpc' = rpc + 1
  /\ UNCHANGED <<rarg, rtext, rformatted, rmermaidBlocks, rcodeBlocks, rinlineCodes>>
  /\ UNCHANGED <<bslVars, xmlVars, detectVars, hlVars, diagramVars, copyVars, foldVars, appendVars, chatVars, convVars, foldingVars, attachVars>>

\* md = md.replace(/.../g, ...): 0), 0.5) and 3) to 12)
Replace == Statement \in ReplaceRules /\ Rewrite(replaceAll(Statement, rmd))
\* 2): md = escapeHTML(md)
Escape == Statement = "escape" /\ Rewrite(escapeHTML(rmd))
\* 13): paragraphs
WrapParagraphs == Statement = "paragraphs" /\ Rewrite(paragraphs(rmd))

\* the list an extraction or a restoration works on
BlocksOf(word) ==
  CASE word = MermaidWord -> rmermaidBlocks
    [] word = CodeblockWord -> rcodeBlocks
    [] word = InlinecodeWord -> rinlineCodes
\* 1), 2), 1.5): md = md.replace(/.../g, function ...), the matches stored and replaced by
\* their markers
Extract ==
  /\ Statement \in ExtractRules
  /\ \E word \in {MarkerWord(Statement)} : \E r \in {extract(Statement, rmd, BlocksOf(word))} :
       /\ rmd' = r.md
       /\ rmermaidBlocks' = IF word = MermaidWord THEN r.blocks ELSE rmermaidBlocks
       /\ rcodeBlocks' = IF word = CodeblockWord THEN r.blocks ELSE rcodeBlocks
       /\ rinlineCodes' = IF word = InlinecodeWord THEN r.blocks ELSE rinlineCodes
  /\ rtext' = IF Statement = "mermaid-bare" THEN rmd ELSE rtext
  /\ rpc' = rpc + 1
  /\ UNCHANGED <<rarg, rformatted>>
  /\ UNCHANGED <<bslVars, xmlVars, detectVars, hlVars, diagramVars, copyVars, foldVars, appendVars, chatVars, convVars, foldingVars, attachVars>>

RestoreWord(statement) ==
  CASE statement = "restore-code" -> CodeblockWord
    [] statement = "restore-mermaid" -> MermaidWord
    [] statement = "restore-inline" -> InlinecodeWord
\* 14), 15), 16): blocks.forEach(...), the stored html put back; after the last, md is returned
Restore ==
  /\ Statement \in RestoreRules
  /\ \E word \in {RestoreWord(Statement)} : rmd' = restore(rmd, word, BlocksOf(word), 1)
  /\ rformatted' = IF Statement = "restore-code" THEN rmd ELSE rformatted
  /\ rpc' = rpc + 1
  /\ UNCHANGED <<rarg, rtext, rmermaidBlocks, rcodeBlocks, rinlineCodes>>
  /\ UNCHANGED <<bslVars, xmlVars, detectVars, hlVars, diagramVars, copyVars, foldVars, appendVars, chatVars, convVars, foldingVars, attachVars>>

NextRender == ReturnEmpty \/ Replace \/ Escape \/ Extract \/ WrapParagraphs \/ Restore

SpecRender == InitRender /\ [][NextRender]_vars

\* the value render has returned
Returned == rpc = ReturnPc

\* C4: whatever the input, the value render returns holds none of the input's "<" and ">" as
\* they are and no "<script", and each "&" in it opens one of the five character references
\* of escapeHTML; the only markup is the markup the stages generate.
EntityNames == {<<"&","a","m","p">>, <<"&","l","t">>, <<"&","g","t">>, <<"&","q","u","o","t">>, <<"&","#","3","9">>}
MarkersOf(word, blocks) == {Marker(word, n - 1) : n \in DOMAIN blocks}
Markers ==
  MarkersOf(MermaidWord, rmermaidBlocks) \cup MarkersOf(CodeblockWord, rcodeBlocks)
    \cup MarkersOf(InlinecodeWord, rinlineCodes)
\* C5: the markers of one render call are pairwise distinct, and none of them occurs in the
\* text as it was before the extractions.
PlaceholdersUnique ==
  /\ Cardinality(Markers) = Len(rmermaidBlocks) + Len(rcodeBlocks) + Len(rinlineCodes)
  /\ \A m \in Markers : ~Contains(rtext, m)

\* the literal substitution of the first occurrence of marker
replaceLiteral(text, marker, html) ==
  IF IndexOf(text, marker, 0) < 0 THEN text
  ELSE Slice(text, 0, IndexOf(text, marker, 0)) \o html
         \o SubSeq(text, IndexOf(text, marker, 0) + Len(marker) + 1, Len(text))
RECURSIVE restoreLiteral(_, _, _, _)
restoreLiteral(text, word, blocks, i) ==
  IF i > Len(blocks) THEN text
  ELSE restoreLiteral(replaceLiteral(text, Marker(word, i - 1), blocks[i]), word, blocks, i + 1)
\* C6: the value render returns is the formatted text with each marker replaced by the html
\* stored for it, character for character, and holds no marker.
RestoredLiterally ==
  Returned =>
    /\ rmd = restoreLiteral(restoreLiteral(restoreLiteral(rformatted,
                 CodeblockWord, rcodeBlocks, 1), MermaidWord, rmermaidBlocks, 1),
                 InlinecodeWord, rinlineCodes, 1)
    /\ \A m \in Markers : ~Contains(rmd, m)

\* text with no Markdown syntax and no embedded language marker
PlainChars == LatinLetters \cup {" ", "\n", "<", ">", "&", "\"", "'"}
IsPlainText(text) == Range(text) \subseteq PlainChars /\ ~Contains(text, CodeTag)
\* '<p>' + escapeHTML(text) with each newline replaced by '<br>' + '</p>'
PlainParagraph(text) == <<"g<","p","g>">> \o ReplaceCh(escapeHTML(text), "\n", <<"g<","b","r","g>">>) \o <<"g<","/","p","g>">>
\* C7: plain text renders to one paragraph of the escaped text, its newlines as line breaks.
PlainTextRoundTrip ==
  (Returned /\ IsPlainText(rarg)) => rmd = PlainParagraph(rarg)
\* C7, amended: the same for plain text that is not empty, has no blank at either end and no
\* blank line.
PlainTextParagraph ==
  (/\ Returned /\ IsPlainText(rarg)
   /\ rarg # <<>> /\ Trim(rarg) = rarg /\ ~Contains(rarg, TwoNewlines))
    => rmd = PlainParagraph(rarg)
PlainTextRendered ==
  /\ Returned /\ IsPlainText(rarg)
  /\ rarg # <<>> /\ Trim(rarg) = rarg /\ ~Contains(rarg, TwoNewlines)
  /\ "\n" \in Range(rarg) /\ "<" \in Range(rarg)

\* ------------------------------------------------ render on lines of block markup
\* quoted lines, list items of both kinds at two depths, a line of text and an empty line
LineKinds ==
  { <<">"," ","a">>, <<">","b">>, <<"a">>, <<>>, <<"-"," ","a">>, <<"1","."," ","b">>, <<" "," ","-"," ","c">>, <<" "," ","1","."," ","d">> }
LineInputs == {Join(w, <<"\n">>) : w \in SeqsUpTo(LineKinds, MaxLines)}
InitRenderLines ==
  /\ rarg \in LineInputs
  /\ rmd = rarg
  /\ rtext = <<>> /\ rformatted = <<>>
  /\ rmermaidBlocks = <<>> /\ rcodeBlocks = <<>> /\ rinlineCodes = <<>>
  /\ rpc = 1
  /\ BslIdle /\ XmlIdle /\ DetectIdle /\ HlIdle /\ DiagramIdle /\ CopyIdle /\ FoldIdle /\ AppendIdle /\ ChatIdle /\ ConvIdle /\ FoldingIdle /\ AttachIdle
SpecRenderLines == InitRenderLines /\ [][NextRender]_vars

\* the lines of the text all begin with ">": one run of quoted lines
IsQuoteRun(text) == text # <<>> /\ \A line \in Range(Split(text, "\n")) : At(line, 0) = ">"
\* a quoted line without its ">" and the one blank that may follow it
QuoteText(line) == IF At(line, 1) = " " THEN SubSeq(line, 3, Len(line)) ELSE SubSeq(line, 2, Len(line))
QuoteTexts(lines) == [n \in DOMAIN lines |-> escapeHTML(QuoteText(lines[n]))]
\* C13: a run of input lines that begin with ">" is returned as one blockquote element, the
\* lines without their prefix joined by <br>, and in no paragraph.
QuoteRunRendered ==
  (Returned /\ IsQuoteRun(rarg)) =>
    rmd = <<"g<","b","l","o","c","k","q","u","o","t","e","g>">> \o Join(QuoteTexts(Split(rarg, "\n")), <<"g<","b","r","g>">>) \o <<"g<","/","b","l","o","c","k","q","u","o","t","e","g>">>

\* ------------------------------------------------ render on text with URLs
\* the rule needs two characters after the slashes
Url == <<"h","t","t","p",":","/","/","a","b">>
ExplicitLink == <<"[","t","]","(","h","t","t","p",":","/","/","a","b",")">>
\* what may stand before a URL, a URL, and a link whose target is the same URL
LinkAtoms == { <<"\"">>, <<"'">>, <<"(">>, <<" ">>, <<"x">>, Url, ExplicitLink }
LinkInputs == {Flatten(w) : w \in SeqsUpTo(LinkAtoms, MaxLinks)}
InitRenderLinks ==
  /\ rarg \in LinkInputs
  /\ rmd = rarg
  /\ rtext = <<>> /\ rformatted = <<>>
  /\ rmermaidBlocks = <<>> /\ rcodeBlocks = <<>> /\ rinlineCodes = <<>>
  /\ rpc = 1
  /\ BslIdle /\ XmlIdle /\ DetectIdle /\ HlIdle /\ DiagramIdle /\ CopyIdle /\ FoldIdle /\ AppendIdle /\ ChatIdle /\ ConvIdle /\ FoldingIdle /\ AttachIdle
SpecRenderLinks == InitRenderLinks /\ [][NextRender]_vars

\* the number of places of s at which pat begins
Occurrences(s, pat) == Cardinality({k \in 0..Len(s) : StartsAt(s, pat, k)})
\* the text is one bare URL with at most one character before it
IsBareUrl(text) == text = Url \/ (Len(text) = Len(Url) + 1 /\ Tail(text) = Url)
\* the text holds explicit links and no URL outside them
OnlyExplicitLinks(text) ==
  /\ Occurrences(text, ExplicitLink) > 0
  /\ Occurrences(text, Url) = Occurrences(text, ExplicitLink)
\* C14: a bare URL is returned inside an anchor unless the character before it in the input
\* is a double quote, a single quote or an opening parenthesis, and then it is returned as
\* plain text; the target of an explicit link is not made a link a second time.
AutolinkUnlessQuoted ==
  /\ (Returned /\ IsBareUrl(rarg)) =>
       (Contains(rmd, AnchorOpen) <=> Head(rarg) \notin {"\"", "'", "("})
  /\ (Returned /\ OnlyExplicitLinks(rarg)) =>
       Occurrences(rmd, AnchorOpen) = Occurrences(rarg, ExplicitLink)


\* the list items of LineKinds without indentation, and those with two blanks of it
ParentLines == { <<"-"," ","a">>, <<"1","."," ","b">> }
NestedLines == { <<" "," ","-"," ","c">>, <<" "," ","1","."," ","d">> }
\* the marker of the line is a number and a dot
IsOrderedLine(line) == BulletEnd(TRUE, line, 0) # NoMatch
ListTagOf(line) == IF IsOrderedLine(line) THEN <<"o","l">> ELSE <<"u","l">>
\* the text of the item after its marker and one blank
ItemContent(line) == SubSeq(line, BulletEnd(IsOrderedLine(line), line, 0) + 2, Len(line))
ItemsOf(lines) == Flatten([n \in DOMAIN lines |-> OpenTag(<<"l","i">>) \o ItemContent(lines[n]) \o CloseTag(<<"l","i">>)])
\* one list of one item that holds the list of the nested lines, of the kind of the first
NestedListHTML(parent, nested) ==
  OpenTag(ListTagOf(parent))
    \o OpenTag(<<"l","i">>) \o ItemContent(parent)
    \o OpenTag(ListTagOf(nested[1])) \o ItemsOf(nested) \o CloseTag(ListTagOf(nested[1]))
    \o CloseTag(<<"l","i">>)
    \o CloseTag(ListTagOf(parent))
\* C15: the more indented list lines after a list item are returned as a list inside the
\* <li> of that item, of the kind of the first of them, whatever the kind of the item.
NestedListInItem ==
  \A parent \in ParentLines : \A nested \in SeqsOfLen(NestedLines, 1) \cup SeqsOfLen(NestedLines, 2) :
    (Returned /\ rarg = Join(<<parent>> \o nested, <<"\n">>)) => rmd = NestedListHTML(parent, nested)


\* ------------------------------------------------ render on blocks between blank lines
TextBlock == <<"a","\n","b">>
FenceBlock == <<"u0060","u0060","u0060","\n","a","\n","u0060","u0060","u0060">>
QuoteBlock == <<">"," ","a">>
\* a heading, a list, a table, a rule, a diagram: the blocks that are elements by the
\* paragraph stage when the stages before it did their work
ElementBlocks == { <<"#"," ","a">>, <<"-"," ","a">>, <<"|","a","|","\n","|","-","|","\n","|","b","|">>, <<"-","-","-">>, <<"u0060","u0060","u0060","m","e","r","m","a","i","d","\n","A","\n","u0060","u0060","u0060">> }
BlockKinds == ElementBlocks \cup {QuoteBlock, FenceBlock, TextBlock}
BlockInputs == {Join(w, TwoNewlines) : w \in SeqsUpTo(BlockKinds, MaxBlocks)}
InitRenderBlocks ==
  /\ rarg \in BlockInputs
  /\ rmd = rarg
  /\ rtext = <<>> /\ rformatted = <<>>
  /\ rmermaidBlocks = <<>> /\ rcodeBlocks = <<>> /\ rinlineCodes = <<>>
  /\ rpc = 1
  /\ BslIdle /\ XmlIdle /\ DetectIdle /\ HlIdle /\ DiagramIdle /\ CopyIdle /\ FoldIdle /\ AppendIdle /\ ChatIdle /\ ConvIdle /\ FoldingIdle /\ AttachIdle
SpecRenderBlocks == InitRenderBlocks /\ [][NextRender]_vars

\* the text is made of one or two blocks of the kinds given
MadeOfBlocks(text, kinds) ==
  \E w \in SeqsOfLen(kinds, 1) \cup SeqsOfLen(kinds, 2) : text = Join(w, TwoNewlines)
\* C16: a block that is a heading, a list, a table, a rule, a blockquote, a diagram or a
\* fenced code block is returned in no <p>; a block of text is returned as one paragraph,
\* its newlines as <br>.
BlockElementsUnwrapped ==
  /\ (Returned /\ MadeOfBlocks(rarg, BlockKinds \ {TextBlock})) => ~Contains(rmd, OpenTag(<<"p">>))
  /\ (Returned /\ rarg = TextBlock) => rmd = PlainParagraph(TextBlock)


\* ------------------------------------------------ render on one diagram of one node line
\* what follows the opening delimiter of the node: a letter and the six delimiters
LabelAtoms == { "x", "[", "]", "{", "}", "(", ")" }
NodeOpenings == { "[", "{", "(" }
NodeLines == {<<"A", open>> \o body : open \in NodeOpenings, body \in SeqsUpTo(LabelAtoms, MaxLabel)}
DiagramFenceOpen == <<"u0060","u0060","u0060","m","e","r","m","a","i","d","\n">>
DiagramFenceClose == <<"\n","u0060","u0060","u0060">>
DiagramOf(line) == DiagramFenceOpen \o line \o DiagramFenceClose
DiagramInputs == {<<>>} \cup {DiagramOf(line) : line \in NodeLines}
InitRenderDiagrams ==
  /\ rarg \in DiagramInputs
  /\ rmd = rarg
  /\ rtext = <<>> /\ rformatted = <<>>
  /\ rmermaidBlocks = <<>> /\ rcodeBlocks = <<>> /\ rinlineCodes = <<>>
  /\ rpc = 1
  /\ BslIdle /\ XmlIdle /\ DetectIdle /\ HlIdle /\ DiagramIdle /\ CopyIdle /\ FoldIdle /\ AppendIdle /\ ChatIdle /\ ConvIdle /\ FoldingIdle /\ AttachIdle
SpecRenderDiagrams == InitRenderDiagrams /\ [][NextRender]_vars

\* the line of the diagram given to render, and the source stored for it in the html
DiagramLine == SubSeq(rarg, Len(DiagramFenceOpen) + 1, Len(rarg) - Len(DiagramFenceClose))
DiagramSource == SubSeq(rmermaidBlocks[1], 2, Len(rmermaidBlocks[1]) - 1)
DiagramStored == Returned /\ Len(rmermaidBlocks) = 1
\* the delimiters of s in their order
Delimiters(s) == SelectSeq(s, LAMBDA ch : ch \in BracketChars)
\* every delimiter of d has its partner and the pairs are nested in each other
RECURSIVE Nested(_)
Nested(d) ==
  \/ d = <<>>
  \/ \E k \in 1..(Len(d) - 1) :
       /\ d[k] \in NodeOpenings /\ d[k + 1] = CloseOf(d[k])
       /\ Nested(SubSeq(d, 1, k - 1) \o SubSeq(d, k + 2, Len(d)))
\* a node definition whose closing delimiter ends the line, every delimiter of its label matched
IsClosedNode(line) ==
  /\ Len(line) >= 3 /\ line[Len(line)] = CloseOf(line[2])
  /\ Nested(Delimiters(SubSeq(line, 3, Len(line) - 1)))
\* the delimiters of a label that are to be replaced: the pair of the node, brackets and
\* parentheses
ToReplace(open) == {open, CloseOf(open), "[", "]", "(", ")"}
\* out is line with its outer pair kept and each such delimiter of the label replaced by a
\* character that is no ASCII delimiter; the other characters are kept
OuterPairOnly(line, out) ==
  /\ Len(out) = Len(line)
  /\ out[1] = line[1] /\ out[2] = line[2] /\ out[Len(line)] = line[Len(line)]
  /\ \A k \in 3..(Len(line) - 1) :
       IF line[k] \in ToReplace(line[2]) THEN out[k] \notin BracketChars ELSE out[k] = line[k]
\* C17: of a node definition closed on its line only the outer delimiter pair is kept; each
\* nested delimiter of the same pair and each bracket or parenthesis in the label is replaced
\* by a look-alike, for the three shapes.
OutermostPairKept ==
  (DiagramStored /\ IsClosedNode(DiagramLine)) => OuterPairOnly(DiagramLine, DiagramSource)

\* the number of open's less the number of close's in s
Depth(s, open) == Count(s, open) - Count(s, CloseOf(open))
\* from place k of line on, the delimiter there is never matched
Unclosed(line, k) == \A m \in k..Len(line) : Depth(SubSeq(line, k, m), line[k]) > 0
\* the node is not closed on its line, or a bracket or parenthesis of another kind in it is not
HasUnclosed(line) ==
  \/ Unclosed(line, 2)
  \/ \E k \in 3..Len(line) : line[k] \in {"[", "("} \ {line[2]} /\ Unclosed(line, k)
\* C18: a node definition without its closing delimiter on the line, or with a bracket or
\* parenthesis in it that is not closed, is left as it is.
UnclosedLeftUntouched ==
  (DiagramStored /\ HasUnclosed(DiagramLine)) => DiagramSource = DiagramLine


\* ------------------------------------------------ the entry points called on a non-string
\* a value that is no string: its type, what String(value) gives, and whether it is truthy
JsValue(type, text, truthy) == [type |-> type, text |-> text, truthy |-> truthy]
NonStrings ==
  { JsValue("undefined", <<"u","n","d","e","f","i","n","e","d">>, FALSE), JsValue("null", <<"n","u","l","l">>, FALSE),
    JsValue("number", <<"0">>, FALSE), JsValue("number", <<"4","2">>, TRUE), JsValue("number", <<"N","a","N">>, FALSE),
    JsValue("boolean", <<"t","r","u","e">>, TRUE), JsValue("boolean", <<"f","a","l","s","e">>, FALSE),
    JsValue("object", <<"[","o","b","j","e","c","t"," ","O","b","j","e","c","t","]">>, TRUE) }
\* the call raised a TypeError
ResultThrow == [kind |-> "throw", html |-> <<>>]
\* value.length, value.trim, value.replace: reading a property of undefined or null throws
PropertyReadThrows(value) == value.type \in {"undefined", "null"}
\* highlightBSL(code) and highlightXML(code) on a non-string: code.length is undefined for
\* a number, a boolean and a plain object, the loop condition i < len is false, out is ""
HighlightNonString(value) == IF PropertyReadThrows(value) THEN ResultThrow ELSE ResultHtml(<<>>)
\* likelyXML(text) on a non-string: text.trim() is the first thing evaluated; no such value
\* has a method trim
likelyXMLNonString(value) == ResultThrow
\* likelyBSL(text) on a non-string: each test converts its argument with String
likelyBSLNonString(value) == ResultBool(likelyBSL(value.text))
\* render(md) on a non-string: "" for a falsy value, and md.replace is not a function
renderNonString(value) == IF ~value.truthy THEN ResultHtml(<<>>) ELSE ResultThrow

InitNonString ==
  /\ dcode \in NonStrings
  /\ dlang = <<>> /\ dfn = "none" /\ dres = ResultNone
  /\ BslIdle /\ XmlIdle /\ HlIdle /\ RenderIdle /\ DiagramIdle /\ CopyIdle /\ FoldIdle /\ AppendIdle /\ ChatIdle /\ ConvIdle /\ FoldingIdle /\ AttachIdle
CallRenderNonString ==
  /\ dfn = "none"
  /\ dfn' = "Markdown.render" /\ dres' = renderNonString(dcode)
  /\ UNCHANGED <<dcode, dlang, bslVars, xmlVars, hlVars, renderVars, diagramVars, copyVars, foldVars, appendVars, chatVars, convVars, foldingVars, attachVars>>
CallLikelyBSLNonString ==
  /\ dfn = "none"
  /\ dfn' = "likelyBSL" /\ dres' = likelyBSLNonString(dcode)
  /\ UNCHANGED <<dcode, dlang, bslVars, xmlVars, hlVars, renderVars, diagramVars, copyVars, foldVars, appendVars, chatVars, convVars, foldingVars, attachVars>>
CallLikelyXMLNonString ==
  /\ dfn = "none"
  /\ dfn' = "likelyXML" /\ dres' = likelyXMLNonString(dcode)
  /\ UNCHANGED <<dcode, dlang, bslVars, xmlVars, hlVars, renderVars, diagramVars, copyVars, foldVars, appendVars, chatVars, convVars, foldingVars, attachVars>>
CallBslHighlightNonString ==
  /\ dfn = "none"
  /\ \E lang \in LangTags :
       /\ dlang' = lang
       /\ dres' = IF ~BslForce(lang) /\ likelyBSLNonString(dcode) = ResultBool(FALSE) THEN ResultNull
                  ELSE HighlightNonString(dcode)
  /\ dfn' = "BSL.highlight"
  /\ UNCHANGED <<dcode, bslVars, xmlVars, hlVars, renderVars, diagramVars, copyVars, foldVars, appendVars, chatVars, convVars, foldingVars, attachVars>>
CallXmlHighlightNonString ==
  /\ dfn = "none"
  /\ \E lang \in LangTags :
       /\ dlang' = lang
       /\ dres' = IF ~XmlForce(lang) THEN likelyXMLNonString(dcode) ELSE HighlightNonString(dcode)
  /\ dfn' = "XML.highlight"
  /\ UNCHANGED <<dcode, bslVars, xmlVars, hlVars, renderVars, diagramVars, copyVars, foldVars, appendVars, chatVars, convVars, foldingVars, attachVars>>
NextNonString ==
  \/ CallRenderNonString \/ CallLikelyBSLNonString \/ CallLikelyXMLNonString
  \/ CallBslHighlightNonString \/ CallXmlHighlightNonString
SpecNonString == InitNonString /\ [][NextNonString]_vars

\* C19: called on a value that is no string, Markdown.render, BSL.highlight, XML.highlight
\* and the two detectors return "", null or false, and raise nothing.
NonStringNeutral ==
  (dfn # "none" /\ dcode \in NonStrings) => dres \in {ResultHtml(<<>>), ResultNull, ResultBool(FALSE)}


\* ------------------------------------------------ app.js renderMermaidDiagrams
\* a .mermaid element as render leaves it: not processed, its source in it
FreshDiv == [processed |-> FALSE, error |-> FALSE, innerHTML |-> "source"]
\* container.querySelectorAll('.mermaid:not([data-processed])'): the places of the elements
\* without the attribute, in document order, from place k on
RECURSIVE UnprocessedFrom(_, _)
UnprocessedFrom(divs, k) ==
  IF k > Len(divs) THEN <<>>
  ELSE (IF divs[k].processed THEN <<>> ELSE <<k>>) \o UnprocessedFrom(divs, k + 1)
querySelectorAll(divs) == UnprocessedFrom(divs, 1)
\* a call from its first statement to its first await, or to its return: mermaidDivs, i, the
\* elements given to window.mermaid.render so far and how each render ended
CallOn(list) ==
  [mermaidDivs |-> list, i |-> 0, handed |-> IF list = <<>> THEN <<>> ELSE <<list[1]>>,
   outcomes |-> <<>>, pc |-> IF list = <<>> THEN "done" ELSE "await"]
StartCall(divs, present) == CallOn(IF present THEN querySelectorAll(divs) ELSE <<>>)
\* the rest of an iteration after the try statement, and the next one up to its await
NextIteration(call, outcome) ==
  IF call.i + 1 < Len(call.mermaidDivs)
  THEN [call EXCEPT !.i = @ + 1, !.outcomes = Append(@, outcome),
                    !.handed = Append(@, call.mermaidDivs[call.i + 2])]
  ELSE [call EXCEPT !.i = @ + 1, !.outcomes = Append(@, outcome), !.pc = "done"]
\* the element the call is waiting for
Awaited(call) == call.mermaidDivs[call.i + 1]

InitDiagrams ==
  /\ mwindow \in BOOLEAN /\ minitialized = FALSE
  /\ mdivs \in {[k \in 1..n |-> FreshDiv] : n \in 0..MaxDiagrams}
  /\ mcalls = <<>>
  /\ BslIdle /\ XmlIdle /\ DetectIdle /\ HlIdle /\ RenderIdle /\ CopyIdle /\ FoldIdle /\ AppendIdle /\ ChatIdle /\ ConvIdle /\ FoldingIdle /\ AttachIdle
\* renderMermaidDiagrams(container) is called: initMermaid, whose initialize may throw and
\* is caught, then the loop up to the first await
RenderMermaidDiagrams ==
  /\ Len(mcalls) < MaxCalls
  /\ minitialized' \in (IF mwindow /\ ~minitialized THEN {TRUE, FALSE} ELSE {minitialized})
  /\ mcalls' = Append(mcalls, StartCall(mdivs, mwindow))
  /\ UNCHANGED <<mwindow, mdivs, bslVars, xmlVars, detectVars, hlVars, renderVars, copyVars, foldVars, appendVars, chatVars, convVars, foldingVars, attachVars>>
\* the renderer's promise is fulfilled: div.innerHTML = svg, data-processed
RenderFulfilled(c) ==
  /\ mcalls[c].pc = "await"
  /\ mdivs' = [mdivs EXCEPT ![Awaited(mcalls[c])] = [@ EXCEPT !.innerHTML = "svg", !.processed = TRUE]]
  /\ mcalls' = [mcalls EXCEPT ![c] = NextIteration(@, "ok")]
  /\ UNCHANGED <<mwindow, minitialized, bslVars, xmlVars, detectVars, hlVars, renderVars, copyVars, foldVars, appendVars, chatVars, convVars, foldingVars, attachVars>>
\* a plausible slip: no try statement around the await, the rejection ends the loop in the
\* outer catch
RenderRejectedUncaught(c) ==
  /\ mcalls[c].pc = "await"
  /\ mcalls' = [mcalls EXCEPT ![c] = [@ EXCEPT !.outcomes = Append(@, "fail"), !.pc = "done"]]
  /\ UNCHANGED <<mwindow, minitialized, mdivs, bslVars, xmlVars, detectVars, hlVars, renderVars, copyVars, foldVars, appendVars, chatVars, convVars, foldingVars, attachVars>>
\* the renderer's promise is rejected: the catch clause writes the message into the element
\* and sets data-processed, data-error and data-error-message
RenderRejected(c) ==
  /\ mcalls[c].pc = "await"
  /\ mdivs' = [mdivs EXCEPT ![Awaited(mcalls[c])] =
                 [@ EXCEPT !.innerHTML = "error", !.processed = TRUE, !.error = TRUE]]
  /\ mcalls' = [mcalls EXCEPT ![c] = NextIteration(@, "fail")]
  /\ UNCHANGED <<mwindow, minitialized, bslVars, xmlVars, detectVars, hlVars, renderVars, copyVars, foldVars, appendVars, chatVars, convVars, foldingVars, attachVars>>
NextDiagrams ==
  \/ RenderMermaidDiagrams
  \/ \E c \in DOMAIN mcalls : RenderFulfilled(c)
  \/ \E c \in DOMAIN mcalls : RenderRejected(c)
SpecDiagrams == InitDiagrams /\ [][NextDiagrams]_vars

\* no element is given to the renderer twice in the call
HandedOnce(call) ==
  \A a, b \in DOMAIN call.handed : call.handed[a] = call.handed[b] => a = b
\* the call has left no element of its list out when it has returned, and the elements it
\* is through with are processed, those whose rendering failed in error
CallContained(call, divs) ==
  /\ call.pc = "done" => call.i = Len(call.mermaidDivs)
  /\ HandedOnce(call)
  /\ \A k \in 1..call.i :
       /\ divs[call.mermaidDivs[k]].processed
       /\ call.outcomes[k] = "fail" => divs[call.mermaidDivs[k]].error
\* the step is the catch clause of the call for the element d
IsFailureStep(before, after) == after.outcomes = Append(before.outcomes, "fail")
\* C20: when the renderer fails for a diagram, the element is marked processed and in error
\* and holds the error message, the call goes on to every other diagram of its list, and
\* no element is given to the renderer twice in a call.
FailureContained ==
  [][\A c \in DOMAIN mcalls :
       /\ CallContained(mcalls'[c], mdivs')
       /\ IsFailureStep(mcalls[c], mcalls'[c]) =>
            mdivs'[Awaited(mcalls[c])] = [processed |-> TRUE, error |-> TRUE, innerHTML |-> "error"]]_vars
\* a call has returned after a failure for its first diagram and a rendering of its second
RenderedAfterFailure ==
  \E c \in DOMAIN mcalls :
    /\ mcalls[c].pc = "done" /\ mcalls[c].outcomes = <<"fail", "ok">>
    /\ mdivs[mcalls[c].mermaidDivs[2]].innerHTML = "svg"


\* ------------------------------------------------ markdown.js installCopyHandlerOnce
\* the flag and the listener count after a call of installCopyHandlerOnce without its test,
\* a plausible slip
installAlways(installed, listeners) == [installed |-> TRUE, listeners |-> listeners + 1]
\* the flag and the listener count after a call of installCopyHandlerOnce
installCopyHandlerOnce(installed, listeners) ==
  IF installed THEN [installed |-> installed, listeners |-> listeners]
  ELSE [installed |-> TRUE, listeners |-> listeners + 1]
InitCopy ==
  /\ cinstalled = FALSE /\ clisteners = 0 /\ cevents = <<>>
  /\ BslIdle /\ XmlIdle /\ DetectIdle /\ HlIdle /\ RenderIdle /\ DiagramIdle /\ FoldIdle /\ AppendIdle /\ ChatIdle /\ ConvIdle /\ FoldingIdle /\ AttachIdle
\* the script is evaluated: window.Markdown is set and installCopyHandlerOnce() is called
ScriptEvaluated ==
  /\ Len(cevents) < MaxEvents
  /\ cinstalled' = installCopyHandlerOnce(cinstalled, clisteners).installed
  /\ clisteners' = installCopyHandlerOnce(cinstalled, clisteners).listeners
  /\ cevents' = Append(cevents, "init")
  /\ UNCHANGED <<bslVars, xmlVars, detectVars, hlVars, renderVars, diagramVars, foldVars, appendVars, chatVars, convVars, foldingVars, attachVars>>
\* window.Markdown.render is called: it has no statement on the flag or the document
RenderCalled ==
  /\ Len(cevents) < MaxEvents /\ cevents # <<>>
  /\ cevents' = Append(cevents, "render")
  /\ UNCHANGED <<cinstalled, clisteners, bslVars, xmlVars, detectVars, hlVars, renderVars, diagramVars, foldVars, appendVars, chatVars, convVars, foldingVars, attachVars>>
NextCopy == ScriptEvaluated \/ RenderCalled
SpecCopy == InitCopy /\ [][NextCopy]_vars

\* C21: the click handler is on the document at most once, however often the script is
\* evaluated and render is called; with the flag set nothing is added.
CopyHandlerOnce ==
  [][/\ clisteners' <= 1
     /\ cinstalled => (cinstalled' /\ clisteners' = clisteners)]_vars
\* the script has been evaluated twice and render called, one listener is there
CopyHandlerInstalledTwice ==
  /\ Len(SelectSeq(cevents, LAMBDA e : e = "init")) >= 2
  /\ "render" \in Range(cevents) /\ clisteners = 1


\* ------------------------------------------------ render on markup inside code
\* text that the block and inline rules would rewrite outside of code, and text with the
\* patterns of a replacement string
MarkupTexts ==
  { <<"#"," ","a">>, <<"*","*","a","*","*">>, <<"_","a","_">>, <<"~","~","a","~","~">>, <<"-"," ","a">>, <<"1","."," ","a">>, <<"-","-","-">>, <<">"," ","a">>, <<"h","t","t","p",":","/","/","a","b">>,
    <<"[","t","]","(","h","t","t","p",":","/","/","a","b",")">>, <<"<","b",">">>, <<"a"," ","&"," ","b">>,
    <<"$","$">>, <<"$","&">> }
CodeKinds == { "fence", "inline", "diagram" }
\* the text c as the body of a fenced block, of a code span, of a diagram block
InCode(kind, c) ==
  CASE kind = "fence" -> <<"u0060","u0060","u0060","\n">> \o c \o <<"\n","u0060","u0060","u0060">>
    [] kind = "inline" -> <<"u0060">> \o c \o <<"u0060">>
    [] kind = "diagram" -> <<"u0060","u0060","u0060","m","e","r","m","a","i","d","\n">> \o c \o <<"\n","u0060","u0060","u0060">>
\* what stands before the code and after it, markup of the rules among it
TextsBefore == { <<>>, <<"a"," ">>, <<"*","*">>, <<"-"," ">> }
TextsAfter == { <<>>, <<"*","*">>, <<"\n","-"," ","a">> }
CodeInputs ==
  {<<>>} \cup {pre \o InCode(kind, c) \o post :
                 pre \in TextsBefore, kind \in CodeKinds, c \in MarkupTexts, post \in TextsAfter}
InitRenderCode ==
  /\ rarg \in CodeInputs
  /\ rmd = rarg
  /\ rtext = <<>> /\ rformatted = <<>>
  /\ rmermaidBlocks = <<>> /\ rcodeBlocks = <<>> /\ rinlineCodes = <<>>
  /\ rpc = 1
  /\ BslIdle /\ XmlIdle /\ DetectIdle /\ HlIdle /\ DiagramIdle /\ CopyIdle /\ FoldIdle /\ AppendIdle /\ ChatIdle /\ ConvIdle /\ FoldingIdle /\ AttachIdle
SpecRenderCode == InitRenderCode /\ [][NextRender]_vars

\* the element in which the text c of a block of the kind is to be found, escaped and
\* otherwise as it was written
EscapedInCode(kind, c) ==
  CASE kind = "fence" -> <<PreHead, "g>">> \o escapeHTML(c \o <<"\n">>) \o <<PreTail>>
    [] kind = "inline" -> OpenTag(<<"c","o","d","e">>) \o escapeHTML(c) \o CloseTag(<<"c","o","d","e">>)
    [] kind = "diagram" -> <<MermaidHead>> \o escapeHTML(c) \o <<MermaidTail>>
\* C22: text inside a fenced code block, a diagram block or a code span is rewritten by none
\* of the rules that run after the extraction: it is in what render returns escaped and
\* otherwise unchanged.
CodeInteriorKept ==
  Returned =>
    \A pre \in TextsBefore, kind \in CodeKinds, c \in MarkupTexts, post \in TextsAfter :
      rarg = pre \o InCode(kind, c) \o post => Contains(rmd, EscapedInCode(kind, c))


\* ------------------------------------------------ render on fences within fences
\* the opening line of a fence without and with a tag, its closing line alone and after a line of text, a diagram,
\* a code span, text
FencePieces == { <<"u0060","u0060","u0060","\n">>, <<"u0060","u0060","u0060","m","d","\n">>, <<"\n","u0060","u0060","u0060">>, <<"\n","b","\n","u0060","u0060","u0060">>,
                 <<"u0060","u0060","u0060","m","e","r","m","a","i","d","\n","A","\n","u0060","u0060","u0060">>, <<"u0060","a","u0060">>, <<"a">>, <<"\n">> }
FenceInputs == {Flatten(w) : w \in SeqsUpTo(FencePieces, MaxPieces)}
InitRenderFences ==
  /\ rarg \in FenceInputs
  /\ rmd = rarg
  /\ rtext = <<>> /\ rformatted = <<>>
  /\ rmermaidBlocks = <<>> /\ rcodeBlocks = <<>> /\ rinlineCodes = <<>>
  /\ rpc = 1
  /\ BslIdle /\ XmlIdle /\ DetectIdle /\ HlIdle /\ DiagramIdle /\ CopyIdle /\ FoldIdle /\ AppendIdle /\ ChatIdle /\ ConvIdle /\ FoldingIdle /\ AttachIdle
SpecRenderFences == InitRenderFences /\ [][NextRender]_vars

\* some html of blocks holds a marker of the others
HoldsMarkerOf(blocks, word, others) ==
  \E k \in DOMAIN blocks : \E m \in MarkersOf(word, others) : Contains(blocks[k], m)
\* C23: the html stored for a code block holds no marker of a diagram or of a code span, and
\* the html stored for a diagram holds no marker of a code span.
NoMarkerInStoredHtml ==
  /\ ~HoldsMarkerOf(rcodeBlocks, MermaidWord, rmermaidBlocks)
  /\ ~HoldsMarkerOf(rcodeBlocks, InlinecodeWord, rinlineCodes)
  /\ ~HoldsMarkerOf(rmermaidBlocks, InlinecodeWord, rinlineCodes)


\* ------------------------------------------------ the scores of a text and of its extensions
\* texts of keywords, tags and what may stand between them
ScoreAtoms ==
  {<<"P","r","o","c","e","d","u","r","e">>, <<"D","o">>, <<"M","a","p">>, <<"&","A","t","C","l","i","e","n","t">>,
   <<"<","?","x","m","l"," ">>, <<"<","a",">">>, <<"<","/","a",">">>, <<"<","b","/",">">>, <<"&","l","t",";">>,
   <<"x">>, <<" ">>, <<"\n">>}
ScoreInputs == {Flatten(w) : w \in SeqsUpTo(ScoreAtoms, MaxScoreLen)}
InitScores ==
  /\ dcode \in ScoreInputs
  /\ dlang = <<>> /\ dfn = "none" /\ dres = ResultNone
  /\ BslIdle /\ XmlIdle /\ HlIdle /\ RenderIdle /\ DiagramIdle /\ CopyIdle /\ FoldIdle /\ AppendIdle /\ ChatIdle /\ ConvIdle /\ FoldingIdle /\ AttachIdle
NextScores == CallLikelyBSL \/ CallLikelyXML
SpecScores == InitScores /\ [][NextScores]_vars
\* the pieces that fire a trigger of likelyBSL, of likelyXML
BslTriggers == {a \in ScoreAtoms : BslScore(a) > 0}
XmlTriggers == {a \in ScoreAtoms : XmlScore(a) > 0}
\* the text with the piece after it and before it, on a line of its own when sep is a newline
Appended(text, sep, a) == text \o sep \o a
Prepended(text, sep, a) == a \o sep \o text
\* the tests of likelyBSL and of likelyXML, in the order of the code, that fire on a text
BslFired(text) ==
  LET tests == <<WordRe(text, ReProcedure), WordRe(text, ReFunction), WordRe(text, ReEndProcedure),
                 WordRe(text, ReEndFunction), WordRe(text, ReIf) /\ WordRe(text, ReThen),
                 WordRe(text, ReFor) /\ WordRe(text, ReEach), WordRe(text, ReDo), WordRe(text, ReEndDo),
                 WordRe(text, ReQuery), WordRe(text, ReValueTable), WordRe(text, ReSelection),
                 WordRe(text, ReMap), AmpRe(text, ReNaDirective), AmpRe(text, ReAtDirective),
                 HashRe(text, RePreproc), WordRe(text, ReMessage), WordRe(text, ReStrLen), DateRe(text)>>
  IN {i \in DOMAIN tests : tests[i]}
XmlFired(text) ==
  LET tests == <<XmlDeclRe(text), Contains(text, CdataOpen), DoctypeRe(text),
                 OpenTagRe(text) /\ CloseTagRe(text), SelfClosingRe(text), XmlnsRe(text), PiRe(text),
                 CommentRe(text), AttributeRe(text), EntityRe(text)>>
  IN {i \in DOMAIN tests : tests[i]}
UppercaseOnlyKeyword ==
  [][(bpc = "scan" /\ bi < Len(bcode) /\ BslRule(bcode, bi) = "word"
        /\ ToLower(Slice(bcode, bi, bi')) \in UPPERCASE_ONLY_KEYWORDS)
       => LET word == Slice(bcode, bi, bi')
              upper == \A k \in DOMAIN word : ToLowerCh(word[k]) # word[k]
              member == bi > 0 /\ bcode[bi] = "."
          IN bout' = bout \o (IF upper /\ ~member THEN Span("tok-k", word) ELSE word)]_vars
\* highlightBSL has returned on the word in upper case and, after a blank, in mixed case
UppercaseOnlyScanned ==
  /\ bpc = "done"
  /\ bcode = <<"u041A","u041E","u0413","u0414","u0410">> \o <<" ">>
               \o <<"u041A","u043E","u0433","u0434","u0430">>
  /\ bout = Span("tok-k", <<"u041A","u041E","u0413","u0414","u0410">>) \o <<" ">>
               \o <<"u041A","u043E","u0433","u0434","u0430">>


\* s is made of characters other than the delimiter and of doubled delimiters
RECURSIVE IsEscapedBody(_, _)
IsEscapedBody(s, quote) ==
  IF s = <<>> THEN TRUE
  ELSE IF s[1] # quote THEN IsEscapedBody(Tail(s), quote)
  ELSE Len(s) >= 2 /\ s[2] = quote /\ IsEscapedBody(Tail(Tail(s)), quote)
\* C26: the literal opened by a delimiter runs to the first later delimiter that is not one of
\* a doubled pair, or to the end of the input when there is none, and goes to out in one span
\* of a literal's class, whatever it holds.
LiteralEnds ==
  [][(bpc = "scan" /\ bi < Len(bcode) /\ At(bcode, bi) \in {"\"", "'"})
       => LET quote == At(bcode, bi)
              closed == /\ bi' >= bi + 2
                        /\ At(bcode, bi' - 1) = quote /\ At(bcode, bi') # quote
                        /\ IsEscapedBody(Slice(bcode, bi + 1, bi' - 1), quote)
              open == /\ bi' = Len(bcode)
                      /\ IsEscapedBody(Slice(bcode, bi + 1, bi'), quote)
          IN /\ closed \/ open
             /\ \E cls \in {"tok-str", "tok-num"} : bout' = bout \o Span(cls, Slice(bcode, bi, bi'))]_vars
\* highlightBSL has returned on a literal that holds a doubled delimiter and two slashes and
\* has no closing delimiter
LiteralWithEscapeScanned ==
  /\ bpc = "done"
  /\ bcode = <<"\"", "\"", "\"", "/", "/">>
  /\ bout = Span("tok-str", bcode)

\* C27: a quoted literal goes to out in the class of numbers when its delimiter is the single
\* quote and it is eight or fourteen digits between two quotes, and in the class of strings
\* otherwise.
DateLiteralClass ==
  [][(bpc = "scan" /\ bi < Len(bcode) /\ At(bcode, bi) \in {"\"", "'"})
       => LET literal == Slice(bcode, bi, bi')
              date == /\ At(bcode, bi) = "'"
                      /\ Len(literal) - 2 \in {DateDigits, DateDigits + TimeDigits}
                      /\ literal[Len(literal)] = "'"
                      /\ \A k \in 2..(Len(literal) - 1) : literal[k] \in Digits
          IN bout' = bout \o Span(IF date THEN "tok-num" ELSE "tok-str", literal)]_vars
\* highlightBSL has returned on a date with a time
DateLiteralScanned ==
  /\ bpc = "done"
  /\ bout = Span("tok-num", <<"'","2","0","2","5","0","1","0","1","1","2","0","0","0","0","'">>)


\* ------------------------------------------------ app.js sanitizeMermaidCode
\* [A-Za-z_0-9] and the Cyrillic letters of the two ranges of the character class
MermaidWordChars == (LatinLetters \cup CyrLetters \cup Digits \cup {"_"}) \ {"u0401", "u0451"}
\* the end of the match of a pattern at cursor k of s, or NoMatch
RunEnd(s, k, class) == IF ScanWhile(s, k, class) > k THEN ScanWhile(s, k, class) ELSE NoMatch
OperatorMatchEnd(s, k, op) ==
  IF StartsAt(s, op, ScanWhile(s, k, ReSpace))
  THEN ScanWhile(s, ScanWhile(s, k, ReSpace) + Len(op), ReSpace) ELSE NoMatch
SanitizeMatchEnd(rule, s, k) ==
  LET w == RunEnd(s, k, MermaidWordChars)
  IN CASE rule = "brace" ->
            IF At(s, k) = "{" /\ RunEnd(s, k + 1, Range(s) \ {"}"}) # NoMatch
                 /\ At(s, RunEnd(s, k + 1, Range(s) \ {"}"})) = "}"
            THEN RunEnd(s, k + 1, Range(s) \ {"}"}) + 1 ELSE NoMatch
       [] rule = "br" ->
            IF At(s, k) = "<" /\ At(s, k + 1) \in {"b", "B"} /\ At(s, k + 2) \in {"r", "R"}
            THEN LET a == ScanWhile(s, k + 3, ReSpace)
                     b == IF At(s, a) = "/" THEN a + 1 ELSE a
                 IN IF At(s, b) = ">" THEN b + 1 ELSE NoMatch
            ELSE NoMatch
       [] rule = "index" ->
            IF w # NoMatch /\ At(s, w) = "[" /\ RunEnd(s, w + 1, Range(s) \ {"]"}) # NoMatch
                 /\ At(s, RunEnd(s, w + 1, Range(s) \ {"]"})) = "]"
            THEN RunEnd(s, w + 1, Range(s) \ {"]"}) + 1 ELSE NoMatch
       [] rule = "parens" ->
            IF w # NoMatch /\ StartsAt(s, <<"(", ")">>, w) THEN w + 2 ELSE NoMatch
       [] rule = "dot" ->
            IF w # NoMatch /\ At(s, w) = "." THEN RunEnd(s, w + 1, MermaidWordChars) ELSE NoMatch
       [] rule = "le" -> OperatorMatchEnd(s, k, <<"<", "=">>)
       [] rule = "ge" -> OperatorMatchEnd(s, k, <<">", "=">>)
       [] rule = "lt" -> OperatorMatchEnd(s, k, <<"<">>)
       [] rule = "gt" -> OperatorMatchEnd(s, k, <<">">>)
       [] rule = "ne" -> OperatorMatchEnd(s, k, <<"!", "=">>)
       [] rule = "eq" -> OperatorMatchEnd(s, k, <<"=", "=">>)
       [] rule = "spaces" -> RunEnd(s, k, ReSpace)

\* str.replace(/.../g, ...) of sanitizeMermaidCode: the leftmost match, then on from its end
RECURSIVE SanitizeFrom(_, _, _)
RECURSIVE cleanCondition(_)
\* what replaces the match s[k..e)
SanitizeReplacement(rule, s, k, e) ==
  LET w == ScanWhile(s, k, MermaidWordChars)
  IN CASE rule = "brace" -> <<"{">> \o cleanCondition(Slice(s, k + 1, e - 1)) \o <<"}">>
       [] rule \in {"br", "spaces"} -> <<" ">>
       [] rule = "index" -> Slice(s, k, w) \o <<"_">> \o Slice(s, w + 1, e - 1)
       [] rule = "parens" -> Slice(s, k, w)
       [] rule = "dot" -> Slice(s, k, w) \o <<"_">> \o Slice(s, w + 1, e)
       [] rule = "le" -> <<" ", "u2264", " ">>
       [] rule = "ge" -> <<" ", "u2265", " ">>
       [] rule = "lt" -> <<" ", "u2039", " ">>
       [] rule = "gt" -> <<" ", "u203A", " ">>
       [] rule = "ne" -> <<" ", "u2260", " ">>
       [] rule = "eq" -> <<" ", "=", " ">>
SanitizeFrom(rule, s, k) ==
  LET j == MinPos({m \in k..(Len(s) - 1) : SanitizeMatchEnd(rule, s, m) # NoMatch})
  IN IF j = NoMatch THEN Slice(s, k, Len(s))
     ELSE Slice(s, k, j) \o SanitizeReplacement(rule, s, j, SanitizeMatchEnd(rule, s, j))
            \o SanitizeFrom(rule, s, SanitizeMatchEnd(rule, s, j))
sanitizeReplace(rule, s) == SanitizeFrom(rule, s, 0)
RECURSIVE SanitizeEach(_, _)
SanitizeEach(rules, s) ==
  IF rules = <<>> THEN s
  ELSE sanitizeReplace(rules[Len(rules)], SanitizeEach(SubSeq(rules, 1, Len(rules) - 1), s))
\* the callback of rule 2: the text between the braces of a condition node, cleaned
ConditionRules == <<"br", "index", "parens", "le", "ge", "lt", "gt", "ne", "eq", "spaces">>
cleanCondition(conditionText) == Trim(SanitizeEach(ConditionRules, conditionText))
\* rule 1: a line with an edge arrow loses its double quotes
HasArrow(line) ==
  \/ Contains(line, <<"-", "-", ">">>) \/ Contains(line, <<"-", "-", "-", ">">>)
  \/ Contains(line, <<"-", ".", "-", ">">>)
UnquoteEdges(lines) ==
  [n \in DOMAIN lines |-> IF HasArrow(lines[n]) THEN ReplaceCh(lines[n], "\"", <<>>) ELSE lines[n]]
\* sanitizeMermaidCode(code): entities decoded, rules 1 and 2, the global cleanups, trim
sanitizeMermaidCode(code) ==
  Trim(sanitizeReplace("dot", sanitizeReplace("parens", ReplaceCh(
    sanitizeReplace("brace", Join(UnquoteEdges(Split(Unescape(code), "\n")), <<"\n">>)), ";", <<>>))))

\* diagram sources: identifiers, dots, call parentheses, semicolons, condition nodes, edges
SanitizeAtoms ==
  {<<"a">>, <<"u0431">>, <<"a", ".", "b">>, <<".">>, <<";">>, <<"(", ")">>, <<"{">>, <<"}">>, <<"-", "-", ">">>,
   <<"\"">>, <<"\n">>, <<"[", "j", "]">>, <<" ", "<", "=", " ">>, <<"&", "l", "t", ";">>}
SanitizeInputs == {Flatten(w) : w \in SeqsUpTo(SanitizeAtoms, MaxSanitizeLen)}
InitSanitize ==
  /\ dcode \in SanitizeInputs
  /\ dlang = <<>> /\ dfn = "none" /\ dres = ResultNone
  /\ BslIdle /\ XmlIdle /\ HlIdle /\ RenderIdle /\ DiagramIdle /\ CopyIdle /\ FoldIdle /\ AppendIdle /\ ChatIdle /\ ConvIdle /\ FoldingIdle /\ AttachIdle
\* renderMermaidDiagrams passes the text of a diagram element to sanitizeMermaidCode
CallSanitizeMermaidCode ==
  /\ dfn = "none"
  /\ dfn' = "sanitizeMermaidCode" /\ dres' = ResultHtml(sanitizeMermaidCode(dcode))
  /\ UNCHANGED <<dcode, dlang, bslVars, xmlVars, hlVars, renderVars, diagramVars, copyVars, foldVars, appendVars, chatVars, convVars, foldingVars, attachVars>>
NextSanitize == CallSanitizeMermaidCode
SpecSanitize == InitSanitize /\ [][NextSanitize]_vars

\* dot stands between two word characters at cursor k of s
DotInIdentifier(s, k) ==
  At(s, k) = "." /\ At(s, k - 1) \in MermaidWordChars /\ At(s, k + 1) \in MermaidWordChars
\* C28: what sanitizeMermaidCode returns holds no semicolon and no dot between two word
\* characters, chains of dotted names included.
NoDotNoSemicolon ==
  dfn = "sanitizeMermaidCode" =>
    /\ ";" \notin Range(dres.html)
    /\ \A k \in 0..(Len(dres.html) - 1) : ~DotInIdentifier(dres.html, k)


\* ------------------------------------ code-folding.js parseProceduresAndFunctions
ProcedureStartWords == {<<"u041F","u0440","u043E","u0446","u0435","u0434","u0443","u0440","u0430">>, <<"P","r","o","c","e","d","u","r","e">>}
FunctionStartWords == {<<"u0424","u0443","u043D","u043A","u0446","u0438","u044F">>, <<"F","u","n","c","t","i","o","n">>}
ProcedureEndWords == {<<"u041A","u043E","u043D","u0435","u0446","u041F","u0440","u043E","u0446","u0435","u0434","u0443","u0440","u044B">>, <<"E","n","d","P","r","o","c","e","d","u","r","e">>}
FunctionEndWords == {<<"u041A","u043E","u043D","u0435","u0446","u0424","u0443","u043D","u043A","u0446","u0438","u0438">>, <<"E","n","d","F","u","n","c","t","i","o","n">>}
ExportWords == {<<"u042D","u043A","u0441","u043F","u043E","u0440","u0442">>, <<"E","x","p","o","r","t">>}
\* [A-Za-zА-Яа-яЁё_], the first character of a name
NameStartChars == LatinLetters \cup CyrLetters \cup {"_"}
\* /^\s*(w1|w2)\s+([name])/i.test(line)
StartRegex(line, words) ==
  \E w \in words :
    LET k == ScanWhile(line, 0, ReSpace)
        e == ScanWhile(line, k + Len(w), ReSpace)
    IN MatchesAt(line, w, k) /\ e > k + Len(w) /\ At(line, e) \in NameStartChars /\ e < Len(line)
\* /^\s*(w1|w2)\s*$/i.test(line)
EndRegex(line, words) ==
  \E w \in words :
    LET k == ScanWhile(line, 0, ReSpace)
    IN MatchesAt(line, w, k) /\ ScanWhile(line, k + Len(w), ReSpace) = Len(line)
\* /^\s*\/\//.test(line)
commentRegex(line) == StartsAt(line, <<"/", "/">>, ScanWhile(line, 0, ReSpace))
\* /^\s*&\w+/.test(line)
directiveRegex(line) ==
  LET k == ScanWhile(line, 0, ReSpace)
  IN At(line, k) = "&" /\ k + 1 < Len(line) /\ At(line, k + 1) \in AsciiWordChars
\* /w1|w2/i.test(line)
ContainsWord(line, words) == \E w \in words, k \in 0..Len(line) : MatchesAt(line, w, k)

\* extractSignature: the directive lines right above the start line, trimmed, top first
RECURSIVE DirectivesAbove(_, _)
DirectivesAbove(lines, n) ==
  IF n >= 0 /\ directiveRegex(lines[n + 1]) THEN Append(DirectivesAbove(lines, n - 1), Trim(lines[n + 1]))
  ELSE <<>>
\* the declaration is complete on this line
DeclarationComplete(lines, currentLine, startLine) ==
  LET trimmedLine == Trim(lines[currentLine + 1])
  IN \/ ContainsWord(trimmedLine, ExportWords)
     \/ ")" \in Range(trimmedLine)
     \/ currentLine = startLine /\ "(" \notin Range(trimmedLine)
\* a declaration of more lines than this is cut
DeclarationLimit == 20
\* the line after the last line of the declaration that starts at startLine
RECURSIVE DeclarationEnd(_, _, _)
DeclarationEnd(lines, currentLine, startLine) ==
  IF currentLine >= Len(lines) THEN currentLine
  ELSE IF DeclarationComplete(lines, currentLine, startLine) THEN currentLine + 1
  ELSE IF currentLine + 1 - startLine > DeclarationLimit THEN currentLine + 1
  ELSE DeclarationEnd(lines, currentLine + 1, startLine)
extractSignature(lines, startLine) ==
  LET directives == DirectivesAbove(lines, startLine - 1)
      declarationLines == SubSeq(lines, startLine + 1, DeclarationEnd(lines, startLine, startLine))
  IN (IF directives # <<>> THEN Join(directives, <<" ">>) \o <<" ">> ELSE <<>>)
       \o Trim(Join(declarationLines, <<" ">>))

\* the last line at or above n that is not blank (or -1), and the first line of the run of
\* comment lines that ends at n
RECURSIVE SkipBlankLines(_, _)
SkipBlankLines(lines, n) ==
  IF n >= 0 /\ Trim(lines[n + 1]) = <<>> THEN SkipBlankLines(lines, n - 1) ELSE n
RECURSIVE CommentRunStart(_, _)
CommentRunStart(lines, n) ==
  IF n > 0 /\ commentRegex(lines[n]) THEN CommentRunStart(lines, n - 1) ELSE n
\* parseCommentBlocks: the comment blocks above the given blocks, in their order
RECURSIVE parseCommentBlocks(_, _)
parseCommentBlocks(lines, procedureBlocks) ==
  IF procedureBlocks = <<>> THEN <<>>
  ELSE LET procStartLine == Head(procedureBlocks).startLine
           commentEndLine == SkipBlankLines(lines, procStartLine - 1)
           commentStartLine == CommentRunStart(lines, commentEndLine)
           found == /\ procStartLine # 0 /\ commentEndLine >= 0
                    /\ commentRegex(lines[commentEndLine + 1])
                    /\ commentStartLine < commentEndLine
       IN (IF found
           THEN <<[blockType |-> "comment", startLine |-> commentStartLine, endLine |-> commentEndLine,
                   signature |-> Trim(lines[commentStartLine + 1]),
                   relatedProcedureLine |-> procStartLine]>>
           ELSE <<>>)
            \o parseCommentBlocks(lines, Tail(procedureBlocks))
\* blocks.filter(...): an end line below the start line, and a signature
IsValidBlock(block) ==
  /\ block.endLine # Null /\ block.endLine > block.startLine
  /\ block.signature # <<>>
validBlocks(blocks) == SelectSeq(blocks, IsValidBlock)

\* a plausible slip: the end keyword of either kind closes the open block
ClosesBlockOfAnyKind(current, trimmedLine) ==
  /\ current # NoBlock
  /\ EndRegex(trimmedLine, ProcedureEndWords) \/ EndRegex(trimmedLine, FunctionEndWords)
\* the line closes the open block: currentBlock && currentBlock.type === kind && endRegex.test
ClosesBlock(current, trimmedLine) ==
  /\ current # NoBlock
  /\ \/ current.blockType = "procedure" /\ EndRegex(trimmedLine, ProcedureEndWords)
     \/ current.blockType = "function" /\ EndRegex(trimmedLine, FunctionEndWords)
\* the kind of block the line opens, when no block is open ("" when it opens none)
Opens(current, line) ==
  IF current # NoBlock THEN ""
  ELSE IF StartRegex(line, ProcedureStartWords) THEN "procedure"
  ELSE IF StartRegex(line, FunctionStartWords) THEN "function"
  ELSE ""

\* lines of code: starts and ends of both kinds and in both languages, comments, a directive,
\* a blank line, a statement, a start with parameters on the next line
FoldLineAtoms ==
  {<<"P","r","o","c","e","d","u","r","e"," ","A">>, <<"u0444","u0443","u043D","u043A","u0446","u0438","u044F"," ","u0411","(">>, <<"E","n","d","P","r","o","c","e","d","u","r","e">>, <<" ","u043A","u043E","u043D","u0435","u0446","u0444","u0443","u043D","u043A","u0446","u0438","u0438"," ">>, <<"/","/"," ","c">>, <<>>, <<"x",")">>,
   <<"&","A","t","C","l","i","e","n","t">>}
FoldInputs == {Join(w, <<"\n">>) : w \in SeqsUpTo(FoldLineAtoms, MaxFoldLines)}
\* a manager has been constructed on an element that holds the code
InitFold ==
  /\ ftext \in FoldInputs
  /\ flines = <<>> /\ fi = 0 /\ fcurrent = NoBlock /\ fblocks = <<>>
  /\ foldableBlocks = <<>> /\ fpc = "call"
  /\ BslIdle /\ XmlIdle /\ DetectIdle /\ HlIdle /\ RenderIdle /\ DiagramIdle /\ CopyIdle /\ AppendIdle /\ ChatIdle /\ ConvIdle /\ FoldingIdle /\ AttachIdle
\* if (!codeElement.textContent) return []
ParseNoText ==
  /\ fpc = "call" /\ ftext = <<>>
  /\ fpc' = "done"
  /\ UNCHANGED <<ftext, flines, fi, fcurrent, fblocks, foldableBlocks>>
  /\ UNCHANGED <<bslVars, xmlVars, detectVars, hlVars, renderVars, diagramVars, copyVars, appendVars, chatVars, convVars, foldingVars, attachVars>>
\* const lines = codeElement.textContent.split('\n')
ParseSplit ==
  /\ fpc = "call" /\ ftext # <<>>
  /\ flines' = Split(ftext, "\n") /\ fi' = 0 /\ fcurrent' = NoBlock /\ fblocks' = <<>>
  /\ fpc' = "loop"
  /\ UNCHANGED <<ftext, foldableBlocks>>
  /\ UNCHANGED <<bslVars, xmlVars, detectVars, hlVars, renderVars, diagramVars, copyVars, appendVars, chatVars, convVars, foldingVars, attachVars>>
\* one iteration of the loop, on a line that opens a block of the given kind
LineStart(kind) ==
  /\ fpc = "loop" /\ fi < Len(flines)
  /\ Opens(fcurrent, flines[fi + 1]) = kind
  /\ fcurrent' = [blockType |-> kind, startLine |-> fi, endLine |-> Null,
                  signature |-> extractSignature(flines, fi), relatedProcedureLine |-> Null]
  /\ fi' = fi + 1
  /\ UNCHANGED <<ftext, flines, fblocks, foldableBlocks, fpc>>
  /\ UNCHANGED <<bslVars, xmlVars, detectVars, hlVars, renderVars, diagramVars, copyVars, appendVars, chatVars, convVars, foldingVars, attachVars>>
LineProcedureStart == LineStart("procedure")
LineFunctionStart == LineStart("function")
\* one iteration, on a line that closes the open block
LineBlockEnd ==
  /\ fpc = "loop" /\ fi < Len(flines)
  /\ Opens(fcurrent, flines[fi + 1]) = ""
  /\ ClosesBlock(fcurrent, Trim(flines[fi + 1]))
  /\ fblocks' = Append(fblocks, [fcurrent EXCEPT !.endLine = fi])
  /\ fcurrent' = NoBlock
  /\ fi' = fi + 1
  /\ UNCHANGED <<ftext, flines, foldableBlocks, fpc>>
  /\ UNCHANGED <<bslVars, xmlVars, detectVars, hlVars, renderVars, diagramVars, copyVars, appendVars, chatVars, convVars, foldingVars, attachVars>>
\* one iteration, on any other line
LineOther ==
  /\ fpc = "loop" /\ fi < Len(flines)
  /\ Opens(fcurrent, flines[fi + 1]) = ""
  /\ ~ClosesBlock(fcurrent, Trim(flines[fi + 1]))
  /\ fi' = fi + 1
  /\ UNCHANGED <<ftext, flines, fcurrent, fblocks, foldableBlocks, fpc>>
  /\ UNCHANGED <<bslVars, xmlVars, detectVars, hlVars, renderVars, diagramVars, copyVars, appendVars, chatVars, convVars, foldingVars, attachVars>>
\* after the loop: the open block is dropped, the blocks are filtered, the comment blocks are
\* found and put before them
ParseReturn ==
  /\ fpc = "loop" /\ fi >= Len(flines)
  /\ foldableBlocks' = parseCommentBlocks(flines, validBlocks(fblocks)) \o validBlocks(fblocks)
  /\ fpc' = "done"
  /\ UNCHANGED <<ftext, flines, fi, fcurrent, fblocks>>
  /\ UNCHANGED <<bslVars, xmlVars, detectVars, hlVars, renderVars, diagramVars, copyVars, appendVars, chatVars, convVars, foldingVars, attachVars>>
NextFold ==
  \/ ParseNoText \/ ParseSplit \/ LineProcedureStart \/ LineFunctionStart \/ LineBlockEnd
  \/ LineOther \/ ParseReturn
SpecFold == InitFold /\ [][NextFold]_vars

\* the start words and the end words of a kind of block
StartWords(kind) == IF kind = "procedure" THEN ProcedureStartWords ELSE FunctionStartWords
EndWords(kind) == IF kind = "procedure" THEN ProcedureEndWords ELSE FunctionEndWords
CodeBlocks == {b \in Range(foldableBlocks) : b.blockType \in {"procedure", "function"}}
CommentBlocks == {b \in Range(foldableBlocks) : b.blockType = "comment"}
\* C29: a returned procedure or function block ends below its start, on the end keyword of its
\* kind; a start keyword with no end keyword of its kind after it gives no block; no two
\* returned procedure or function blocks overlap; a returned comment block ends below its
\* start and above the start of its procedure.
FoldBlocksWellFormed ==
  fpc = "done" =>
    /\ \A b \in CodeBlocks :
         /\ b.endLine > b.startLine
         /\ StartRegex(flines[b.startLine + 1], StartWords(b.blockType))
         /\ EndRegex(Trim(flines[b.endLine + 1]), EndWords(b.blockType))
         /\ \A c \in CodeBlocks : c = b \/ c.startLine > b.endLine \/ c.endLine < b.startLine
    /\ \A n \in DOMAIN flines : \A kind \in {"procedure", "function"} :
         (/\ StartRegex(flines[n], StartWords(kind))
          /\ \A m \in (n + 1)..Len(flines) : ~EndRegex(Trim(flines[m]), EndWords(kind)))
           => \A b \in CodeBlocks : b.startLine # n - 1
    /\ \A b \in CommentBlocks : b.endLine > b.startLine /\ b.endLine < b.relatedProcedureLine
\* a parse has returned a comment block and the block of the procedure below it
FoldedWithComment ==
  /\ fpc = "done"
  /\ \E b \in CommentBlocks : \E c \in CodeBlocks : c.startLine = b.relatedProcedureLine


\* bodies of fenced blocks: plain lines, a run of two backticks, a line that is the tag code,
\* a code span, a comparison, nothing
FenceBodies ==
  {<<"a","\n">>, <<"a","u0060","u0060","b","\n">>, <<"u0060","u0060","\n">>, <<"<","c","o","d","e",">","\n","x","\n">>, <<"x","\n","<","c","o","d","e",">","\n">>, <<"a","u0060","b","u0060","\n">>, <<"a"," ","<"," ","b","\n">>, <<"\n">>, <<>>}
FenceTagsWritten == {<<"j","s">>, <<"B","s","l">>}
\* the block with tag lang and body body, as it is written
Fenced(lang, body) == <<"u0060","u0060","u0060">> \o lang \o <<"\n">> \o body \o <<"u0060","u0060","u0060">>
BodyTextsBefore == {<<>>, <<"a","\n">>}
BodyTextsAfter == {<<>>, <<"\n","b">>}
BodyInputs ==
  {<<>>} \cup {pre \o Fenced(lang, body) \o post :
                 pre \in BodyTextsBefore, lang \in FenceTagsWritten, body \in FenceBodies,
                 post \in BodyTextsAfter}
InitRenderBodies ==
  /\ rarg \in BodyInputs
  /\ rmd = rarg
  /\ rtext = <<>> /\ rformatted = <<>>
  /\ rmermaidBlocks = <<>> /\ rcodeBlocks = <<>> /\ rinlineCodes = <<>>
  /\ rpc = 1
  /\ BslIdle /\ XmlIdle /\ DetectIdle /\ HlIdle /\ DiagramIdle /\ CopyIdle /\ FoldIdle /\ AppendIdle /\ ChatIdle /\ ConvIdle /\ FoldingIdle /\ AttachIdle
SpecRenderBodies == InitRenderBodies /\ [][NextRender]_vars
\* the element render is to return for the block
FencedElement(lang, body) ==
  <<PreHead>> \o FenceClass(lang) \o <<"g>">> \o escapeHTML(body) \o <<PreTail>>
\* C30: what render returns for a text with a fenced block of tag L and body B holds the code
\* element of class lang-L with exactly the escaped B in it, also when B holds a run of two
\* backticks or a line that is the tag code.
FenceBodyKept ==
  Returned =>
    \A pre \in BodyTextsBefore, lang \in FenceTagsWritten, body \in FenceBodies, post \in BodyTextsAfter :
      rarg = pre \o Fenced(lang, body) \o post => Contains(rmd, FencedElement(lang, body))


\* ------------------------------------------- app.js appendMessage (assistant, append)
\* the length of the longest suffix of prev that is a prefix of delta: the for loop from
\* maxOverlap down to 1
Overlap(prev, delta) ==
  LET hits == {i \in 1..Min(Len(prev), Len(delta)) :
                 SubSeq(prev, Len(prev) - i + 1, Len(prev)) = SubSeq(delta, 1, i)}
  IN IF hits = {} THEN 0 ELSE CHOOSE i \in hits : \A j \in hits : j <= i
\* delta after the two trimming branches
TrimmedDelta(prev, delta) ==
  IF delta = <<>> THEN delta
  ELSE IF StartsAt(delta, prev, 0) THEN Slice(delta, Len(prev), Len(delta))
  ELSE IF prev # <<>> THEN Slice(delta, Overlap(prev, delta), Len(delta))
  ELSE delta
\* const next = append ? prev + delta : (text || "")
NextRaw(prev, text) == prev \o TrimmedDelta(prev, text)
\* the texts the server sends in one delta event
DeltaTexts == SeqsUpTo({"a", "b"}, MaxDeltaLen)
\* a reply begins: no assistant bubble yet
InitAppend ==
  /\ araw = <<>> /\ adeltas = <<>> /\ arendered = <<>>
  /\ BslIdle /\ XmlIdle /\ DetectIdle /\ HlIdle /\ RenderIdle /\ DiagramIdle /\ CopyIdle /\ FoldIdle /\ ChatIdle /\ ConvIdle /\ FoldingIdle /\ AttachIdle
\* the delta listener: appendMessage("assistant", d.text || "", true)
DeltaEvent ==
  /\ Len(adeltas) < MaxDeltas
  /\ \E text \in DeltaTexts :
       /\ adeltas' = Append(adeltas, text)
       /\ araw' = NextRaw(araw, text)
       /\ arendered' = NextRaw(araw, text)
  /\ UNCHANGED <<bslVars, xmlVars, detectVars, hlVars, renderVars, diagramVars, copyVars, foldVars, chatVars, convVars, foldingVars, attachVars>>
NextAppend == DeltaEvent
SpecAppend == InitAppend /\ [][NextAppend]_vars

\* C31: after every delta the raw text of the bubble is the concatenation of the deltas
\* received, whatever they repeat or overlap, and it is the text handed to Markdown.render.
RawIsConcatenation ==
  /\ araw = Flatten(adeltas)
  /\ arendered = araw


\* ------------------------------------------------- app.js submit, startStream
\* appendMessage("assistant", text, append) by a handler of stream n: the bubble written
\* into, and the bubbles after it
BubbleWritten(n, append) ==
  IF append /\ currentAssistantBubble # NoBubble THEN currentAssistantBubble ELSE Len(bubbles) + 1
BubblesAfter(n, append) ==
  IF append /\ currentAssistantBubble # NoBubble
  THEN [bubbles EXCEPT ![currentAssistantBubble] = @ \cup {n}]
  ELSE Append(bubbles, {n})
Reading == {n \in DOMAIN streams : streams[n] = "reading"}
Fetching == {n \in DOMAIN streams : streams[n] = "fetch"}
\* the page is loaded
InitChat ==
  /\ streaming = FALSE /\ uiLocked = FALSE /\ buttonMode = "send"
  /\ currentEventSource = NoStream /\ currentAssistantBubble = NoBubble
  /\ streams = <<>> /\ bubbles = <<>>
  /\ BslIdle /\ XmlIdle /\ DetectIdle /\ HlIdle /\ RenderIdle /\ DiagramIdle /\ CopyIdle /\ FoldIdle /\ AppendIdle /\ ConvIdle /\ FoldingIdle /\ AttachIdle
\* the submit listener of the form on a message that is not empty, up to the await of
\* fetch inside startStream
Submit ==
  /\ Len(streams) < MaxStreams
  /\ streaming' = TRUE /\ uiLocked' = TRUE /\ buttonMode' = "stop"
  /\ currentAssistantBubble' = NoBubble
  /\ streams' = Append(streams, "fetch")
  /\ UNCHANGED <<currentEventSource, bubbles>>
  /\ UNCHANGED <<bslVars, xmlVars, detectVars, hlVars, renderVars, diagramVars, copyVars, foldVars, appendVars, convVars, foldingVars, attachVars>>
\* a click on the send/stop button: the click listener stops the stream when streaming and
\* currentEventSource are set, and the form is submitted otherwise
ClickSendStop ==
  IF streaming /\ currentEventSource # NoStream
  THEN /\ streams' = [streams EXCEPT ![currentEventSource] = "ended"]
       /\ currentEventSource' = NoStream /\ streaming' = FALSE /\ uiLocked' = FALSE
       /\ buttonMode' = "send" /\ currentAssistantBubble' = NoBubble
       /\ UNCHANGED bubbles
       /\ UNCHANGED <<bslVars, xmlVars, detectVars, hlVars, renderVars, diagramVars, copyVars, foldVars, appendVars, convVars, foldingVars, attachVars>>
  ELSE Submit
\* Enter in the message box: requestSubmit() unless the button is disabled, which it never is
PressEnter == Submit
\* a click on the fix button of a diagram: the message is written and the form is submitted
ClickFixMermaid == bubbles # <<>> /\ Submit
\* fetch is fulfilled with an ok response: startStream goes on to its end, the reader loop
\* starts, and the submit listener goes through its finally clause
FetchOk(n) ==
  /\ n \in Fetching
  /\ streams' = [streams EXCEPT ![n] = "reading"]
  /\ currentEventSource' = n
  /\ uiLocked' = (IF ~streaming THEN FALSE ELSE uiLocked)
  /\ buttonMode' = (IF ~streaming THEN "send" ELSE buttonMode)
  /\ UNCHANGED <<streaming, currentAssistantBubble, bubbles>>
  /\ UNCHANGED <<bslVars, xmlVars, detectVars, hlVars, renderVars, diagramVars, copyVars, foldVars, appendVars, convVars, foldingVars, attachVars>>
\* fetch is rejected or the response is not ok: startStream throws, the submit listener goes
\* through catch (a new assistant bubble with the error, setSendMode) and finally
FetchFailed(n) ==
  /\ n \in Fetching
  /\ streams' = [streams EXCEPT ![n] = "ended"]
  /\ bubbles' = BubblesAfter(n, FALSE)
  /\ currentAssistantBubble' = BubbleWritten(n, FALSE)
  /\ buttonMode' = "send"
  /\ uiLocked' = (IF ~streaming THEN FALSE ELSE uiLocked)
  /\ UNCHANGED <<streaming, currentEventSource>>
  /\ UNCHANGED <<bslVars, xmlVars, detectVars, hlVars, renderVars, diagramVars, copyVars, foldVars, appendVars, convVars, foldingVars, attachVars>>
\* the reader loop of stream n emits a delta event: appendMessage("assistant", text, true)
StreamDelta(n) ==
  /\ n \in Reading
  /\ bubbles' = BubblesAfter(n, TRUE)
  /\ currentAssistantBubble' = BubbleWritten(n, TRUE)
  /\ UNCHANGED <<streaming, uiLocked, buttonMode, currentEventSource, streams>>
  /\ UNCHANGED <<bslVars, xmlVars, detectVars, hlVars, renderVars, diagramVars, copyVars, foldVars, appendVars, convVars, foldingVars, attachVars>>
\* the reader loop of stream n emits a done event
StreamDone(n) ==
  /\ n \in Reading
  /\ streams' = [streams EXCEPT ![n] = "ended"]
  /\ currentEventSource' = NoStream /\ streaming' = FALSE /\ uiLocked' = FALSE
  /\ buttonMode' = "send" /\ currentAssistantBubble' = NoBubble
  /\ UNCHANGED bubbles
  /\ UNCHANGED <<bslVars, xmlVars, detectVars, hlVars, renderVars, diagramVars, copyVars, foldVars, appendVars, convVars, foldingVars, attachVars>>
\* the reader loop of stream n emits an error event that carries a message
StreamError(n) ==
  /\ n \in Reading
  /\ streams' = [streams EXCEPT ![n] = "ended"]
  /\ bubbles' = BubblesAfter(n, FALSE)
  /\ currentAssistantBubble' = BubbleWritten(n, FALSE)
  /\ currentEventSource' = NoStream /\ streaming' = FALSE /\ uiLocked' = FALSE
  /\ buttonMode' = "send"
  /\ UNCHANGED <<bslVars, xmlVars, detectVars, hlVars, renderVars, diagramVars, copyVars, foldVars, appendVars, convVars, foldingVars, attachVars>>
\* reader.read() is rejected: the catch clause looks for es.handlers.onerror, which no
\* addEventListener call has set, and the loop is over
ReadRejected(n) ==
  /\ n \in Reading
  /\ streams' = [streams EXCEPT ![n] = "ended"]
  /\ UNCHANGED <<streaming, uiLocked, buttonMode, currentEventSource, currentAssistantBubble, bubbles>>
  /\ UNCHANGED <<bslVars, xmlVars, detectVars, hlVars, renderVars, diagramVars, copyVars, foldVars, appendVars, convVars, foldingVars, attachVars>>
\* reader.read() gives done before any done event: break
BodyEnded(n) ==
  /\ n \in Reading
  /\ streams' = [streams EXCEPT ![n] = "ended"]
  /\ UNCHANGED <<streaming, uiLocked, buttonMode, currentEventSource, currentAssistantBubble, bubbles>>
  /\ UNCHANGED <<bslVars, xmlVars, detectVars, hlVars, renderVars, diagramVars, copyVars, foldVars, appendVars, convVars, foldingVars, attachVars>>
NextChat ==
  \/ ClickSendStop \/ PressEnter \/ ClickFixMermaid
  \/ \E n \in 1..MaxStreams :
       \/ FetchOk(n) \/ FetchFailed(n) \/ StreamDelta(n) \/ StreamDone(n) \/ StreamError(n)
       \/ ReadRejected(n) \/ BodyEnded(n)
SpecChat == InitChat /\ [][NextChat]_vars

\* C32: at most one stream is under way at any time, and no assistant bubble is written into
\* by the handlers of two streams.
OneStreamAtATime ==
  /\ Cardinality(Reading \cup Fetching) <= 1
  /\ \A b \in DOMAIN bubbles : Cardinality(bubbles[b]) <= 1

\* C33: once every exchange that was started has ended, by a done event, an error event, a
\* failed request, a read error or the end of the body, the chat is idle: streaming is false,
\* the button is in send mode and the controls are unlocked.
IdleAfterExchange ==
  (Reading \cup Fetching = {}) => (~streaming /\ buttonMode = "send" /\ ~uiLocked)


\* ------------------------------------------------ conversations.js ConversationsManager
\* generateId(): the id is made of Date.now() and of the digits of Math.random()
generateId(time, random) == <<time, random>>
RandomValues == 1..MaxRandom
DefaultTitle == <<"u041Du043Eu0432u0430u044F", " ", "u0431u0435u0441u0435u0434u0430">>
\* Array.prototype.findIndex(c => c.id === id)
findIndex(convs, id) ==
  LET hits == {i \in DOMAIN convs : convs[i].id = id}
  IN IF hits = {} THEN NoMatch ELSE CHOOSE i \in hits : \A j \in hits : i <= j
\* Array.prototype.splice(index, 1)
splice(convs, index) == SubSeq(convs, 1, index - 1) \o SubSeq(convs, index + 1, Len(convs))
\* localStorage.removeItem and setItem on the keys made of a conversation id
removeItem(items, key) == [k \in DOMAIN items \ {key} |-> items[k]]
setItem(items, key, value) == [k \in DOMAIN items \cup {key} |-> IF k = key THEN value ELSE items[k]]
getItem(items, key) == IF key \in DOMAIN items THEN items[key] ELSE <<>>
\* the manager and the storage as one value: what the methods work on
Manager == [conversations |-> conversations, activeId |-> activeId, storage |-> localStorage]
createConversation(m, id) ==
  LET conv == [id |-> id, title |-> DefaultTitle, message_count |-> 0]
      convs == <<conv>> \o m.conversations
  IN [m EXCEPT !.conversations = convs, !.storage.list = convs]
deleteConversationKeepActive(m, conversationId, id) ==
  LET index == findIndex(m.conversations, conversationId)
      convs == splice(m.conversations, index)
  IN IF index = NoMatch THEN m
     ELSE [m EXCEPT !.conversations = convs,
                    !.storage.list = convs,
                    !.storage.history = removeItem(@, conversationId),
                    !.storage.fileviewer = removeItem(@, conversationId)]
deleteConversation(m, conversationId, id) ==
  LET index == findIndex(m.conversations, conversationId)
      convs == splice(m.conversations, index)
      removed == [m EXCEPT !.conversations = convs,
                           !.storage.list = convs,
                           !.storage.history = removeItem(@, conversationId),
                           !.storage.fileviewer = removeItem(@, conversationId)]
  IN IF index = NoMatch THEN m
     ELSE IF m.activeId # conversationId THEN removed
     ELSE IF convs # <<>>
       THEN [removed EXCEPT !.activeId = convs[1].id, !.storage.active = convs[1].id]
       ELSE [createConversation([removed EXCEPT !.storage.active = NoId], id) EXCEPT !.activeId = id]
setActive(m, conversationId) ==
  IF findIndex(m.conversations, conversationId) = NoMatch THEN m
  ELSE [m EXCEPT !.activeId = conversationId, !.storage.active = conversationId]
\* what setActive returns
setActiveResult(m, conversationId) == findIndex(m.conversations, conversationId) # NoMatch
getActive(m) == findIndex(m.conversations, m.activeId)
renameConversation(m, conversationId, newTitle) ==
  LET index == findIndex(m.conversations, conversationId)
      title == IF Trim(newTitle) = <<>> THEN DefaultTitle ELSE Trim(newTitle)
      convs == [m.conversations EXCEPT ![index].title = title]
  IN IF index = NoMatch THEN m
     ELSE [m EXCEPT !.conversations = convs, !.storage.list = convs]
RECURSIVE RemoveKeys(_, _)
RemoveKeys(items, convs) ==
  IF convs = <<>> THEN items ELSE RemoveKeys(removeItem(items, Head(convs).id), Tail(convs))
clearAll(m, id) ==
  LET cleared == [m EXCEPT !.conversations = <<>>,
                           !.storage.list = <<>>,
                           !.storage.active = NoId,
                           !.storage.history = RemoveKeys(@, m.conversations),
                           !.storage.fileviewer = RemoveKeys(@, m.conversations)]
  IN [createConversation(cleared, id) EXCEPT !.activeId = id]
\* new ConversationsManager() on a storage
constructor(storage, id) ==
  LET loaded == [conversations |-> storage.list, activeId |-> storage.active, storage |-> storage]
      filled == IF loaded.conversations = <<>>
                THEN [createConversation(loaded, id) EXCEPT !.activeId = id]
                ELSE loaded
  IN IF filled.activeId = NoId \/ findIndex(filled.conversations, filled.activeId) = NoMatch
     THEN [filled EXCEPT !.activeId = filled.conversations[1].id]
     ELSE filled
\* the ids the clock and Math.random() can give
ConversationIds == {generateId(t, r) : t \in 0..MaxClock, r \in RandomValues}
TitleTexts == {<<>>, <<" ">>, <<"t">>, <<"t", " ">>}
\* the manager is what a method has left
Becomes(m) ==
  /\ conversations' = m.conversations
  /\ activeId' = m.activeId
  /\ localStorage' = m.storage
\* the page is loaded for the first time: the storage is empty
InitManager ==
  /\ now = 0 /\ saves = 0 /\ fileViewer = NoFile
  /\ \E r \in RandomValues :
       LET m == constructor(EmptyStorage, generateId(0, r))
       IN conversations = m.conversations /\ activeId = m.activeId /\ localStorage = m.storage
  /\ BslIdle /\ XmlIdle /\ DetectIdle /\ HlIdle /\ RenderIdle /\ DiagramIdle /\ CopyIdle /\ FoldIdle /\ AppendIdle /\ ChatIdle /\ FoldingIdle /\ AttachIdle
\* a millisecond goes by
Tick ==
  /\ now < MaxClock
  /\ now' = now + 1
  /\ UNCHANGED <<conversations, activeId, localStorage, fileViewer, saves>>
  /\ UNCHANGED <<bslVars, xmlVars, detectVars, hlVars, renderVars, diagramVars, copyVars, foldVars, appendVars, chatVars, foldingVars, attachVars>>
CallCreateConversation ==
  /\ Len(conversations) < MaxConversations
  /\ \E r \in RandomValues : Becomes(createConversation(Manager, generateId(now, r)))
  /\ UNCHANGED <<fileViewer, now, saves>>
  /\ UNCHANGED <<bslVars, xmlVars, detectVars, hlVars, renderVars, diagramVars, copyVars, foldVars, appendVars, chatVars, foldingVars, attachVars>>
CallDeleteConversation ==
  /\ \E conversationId \in ConversationIds, r \in RandomValues :
       Becomes(deleteConversation(Manager, conversationId, generateId(now, r)))
  /\ UNCHANGED <<fileViewer, now, saves>>
  /\ UNCHANGED <<bslVars, xmlVars, detectVars, hlVars, renderVars, diagramVars, copyVars, foldVars, appendVars, chatVars, foldingVars, attachVars>>
CallSetActive ==
  /\ \E conversationId \in ConversationIds : Becomes(setActive(Manager, conversationId))
  /\ UNCHANGED <<fileViewer, now, saves>>
  /\ UNCHANGED <<bslVars, xmlVars, detectVars, hlVars, renderVars, diagramVars, copyVars, foldVars, appendVars, chatVars, foldingVars, attachVars>>
CallRenameConversation ==
  /\ \E conversationId \in ConversationIds, newTitle \in TitleTexts :
       Becomes(renameConversation(Manager, conversationId, newTitle))
  /\ UNCHANGED <<fileViewer, now, saves>>
  /\ UNCHANGED <<bslVars, xmlVars, detectVars, hlVars, renderVars, diagramVars, copyVars, foldVars, appendVars, chatVars, foldingVars, attachVars>>
CallClearAll ==
  /\ \E r \in RandomValues : Becomes(clearAll(Manager, generateId(now, r)))
  /\ UNCHANGED <<fileViewer, now, saves>>
  /\ UNCHANGED <<bslVars, xmlVars, detectVars, hlVars, renderVars, diagramVars, copyVars, foldVars, appendVars, chatVars, foldingVars, attachVars>>
\* the page is loaded again: a new manager on the storage as it is
Reload ==
  /\ \E r \in RandomValues : Becomes(constructor(localStorage, generateId(now, r)))
  /\ UNCHANGED <<fileViewer, now, saves>>
  /\ UNCHANGED <<bslVars, xmlVars, detectVars, hlVars, renderVars, diagramVars, copyVars, foldVars, appendVars, chatVars, foldingVars, attachVars>>
NextManager ==
  \/ Tick \/ CallCreateConversation \/ CallDeleteConversation \/ CallSetActive
  \/ CallRenameConversation \/ CallClearAll \/ Reload
SpecManager == InitManager /\ [][NextManager]_vars

IdsDistinct ==
  \A i, j \in DOMAIN conversations : conversations[i].id = conversations[j].id => i = j
ActiveIsListed ==
  /\ conversations # <<>>
  /\ activeId # NoId
  /\ getActive(Manager) # NoMatch
UnknownIdRefused ==
  \A conversationId \in ConversationIds :
    findIndex(conversations, conversationId) = NoMatch =>
      /\ ~setActiveResult(Manager, conversationId)
      /\ setActive(Manager, conversationId).activeId = activeId
HISTORY_LIMIT == 500
TitleLimit == 50
TitleKept == 47
generateTitle(firstMessage) ==
  LET cleaned == Trim(firstMessage)
  IN IF firstMessage = <<>> THEN DefaultTitle
     ELSE IF Len(cleaned) <= TitleLimit THEN cleaned
     ELSE SubSeq(cleaned, 1, TitleKept) \o <<".", ".", ".">>
\* history.find(m => m.role === "user")
FirstUserMessage(history) ==
  LET hits == {i \in DOMAIN history : history[i].role = "user"}
  IN IF hits = {} THEN NoMatch ELSE CHOOSE i \in hits : \A j \in hits : i <= j
\* ConversationsManager.saveHistory
saveHistoryOf(m, conversationId, history) ==
  LET stored == [m EXCEPT !.storage.history = setItem(@, conversationId, history)]
      index == findIndex(m.conversations, conversationId)
      first == FirstUserMessage(history)
      title == IF m.conversations[index].title = DefaultTitle /\ first # NoMatch
               THEN generateTitle(history[first].text)
               ELSE m.conversations[index].title
      convs == [m.conversations EXCEPT ![index].message_count = Len(history), ![index].title = title]
  IN IF index = NoMatch THEN stored
     ELSE [stored EXCEPT !.conversations = convs, !.storage.list = convs]
\* loadHistory() and saveHistory(arr) of app.js: those of the active conversation
loadHistory(m) ==
  IF getActive(m) = NoMatch THEN <<>> ELSE getItem(m.storage.history, m.activeId)
saveHistory(m, arr) ==
  IF getActive(m) = NoMatch THEN m ELSE saveHistoryOf(m, m.activeId, arr)
TrimHistoryHead(arr) ==
  IF Len(arr) > HISTORY_LIMIT THEN SubSeq(arr, 1, HISTORY_LIMIT) ELSE arr
\* arr.splice(0, arr.length - HISTORY_LIMIT) when arr is longer than HISTORY_LIMIT
TrimHistory(arr) ==
  IF Len(arr) > HISTORY_LIMIT THEN SubSeq(arr, Len(arr) - HISTORY_LIMIT + 1, Len(arr)) ELSE arr
saveMessageToHistory(m, msg) == saveHistory(m, TrimHistory(Append(loadHistory(m), msg)))
\* the n-th message saved: the submit listener saves the user's, the done listener the reply
Message(n) ==
  [role |-> IF n % 2 = 1 THEN "user" ELSE "assistant", text |-> <<"m">>, ts |-> n]
\* ConversationsManager.saveFileViewerState and loadFileViewerState
saveFileViewerState(m, conversationId, fileData) ==
  IF fileData # NoFile
  THEN [m EXCEPT !.storage.fileviewer = setItem(@, conversationId, fileData)]
  ELSE [m EXCEPT !.storage.fileviewer = removeItem(@, conversationId)]
loadFileViewerState(m, conversationId) == getItem(m.storage.fileviewer, conversationId)
\* FileViewer.saveCurrentState with the viewer in the given state
saveCurrentState(m, viewer) ==
  IF getActive(m) = NoMatch THEN m ELSE saveFileViewerState(m, m.activeId, viewer)
\* switchToConversation: the manager after it, and the viewer after it
Switched(m, viewer, conversationId) ==
  LET saved == IF getActive(m) # NoMatch THEN saveFileViewerState(m, m.activeId, viewer) ELSE m
      active == setActive(saved, conversationId)
      restored == loadFileViewerState(active, conversationId)
  IN IF ~setActiveResult(saved, conversationId)
     THEN [manager |-> saved, viewer |-> viewer]
     ELSE [manager |-> saveCurrentState(active, restored), viewer |-> restored]
FileNames == {"f", "g"}
\* a file attached to a message of the active conversation is opened in the viewer
OpenFile ==
  /\ \E name \in FileNames :
       /\ fileViewer' = <<name, activeId>>
       /\ Becomes(saveCurrentState(Manager, <<name, activeId>>))
  /\ UNCHANGED <<now, saves>>
  /\ UNCHANGED <<bslVars, xmlVars, detectVars, hlVars, renderVars, diagramVars, copyVars, foldVars, appendVars, chatVars, foldingVars, attachVars>>
\* the viewer is closed
CloseFile ==
  /\ fileViewer # NoFile
  /\ fileViewer' = NoFile
  /\ Becomes(saveCurrentState(Manager, NoFile))
  /\ UNCHANGED <<now, saves>>
  /\ UNCHANGED <<bslVars, xmlVars, detectVars, hlVars, renderVars, diagramVars, copyVars, foldVars, appendVars, chatVars, foldingVars, attachVars>>
\* a click on the new conversation button
ClickNewConversation ==
  /\ Len(conversations) < MaxConversations
  /\ \E r \in RandomValues :
       LET id == generateId(now, r)
           after == Switched(createConversation(Manager, id), fileViewer, id)
       IN Becomes(after.manager) /\ fileViewer' = after.viewer
  /\ UNCHANGED <<now, saves>>
  /\ UNCHANGED <<bslVars, xmlVars, detectVars, hlVars, renderVars, diagramVars, copyVars, foldVars, appendVars, chatVars, foldingVars, attachVars>>
\* a click on a conversation of the list
ClickConversation ==
  /\ \E i \in DOMAIN conversations :
       LET after == Switched(Manager, fileViewer, conversations[i].id)
       IN Becomes(after.manager) /\ fileViewer' = after.viewer
  /\ UNCHANGED <<now, saves>>
  /\ UNCHANGED <<bslVars, xmlVars, detectVars, hlVars, renderVars, diagramVars, copyVars, foldVars, appendVars, chatVars, foldingVars, attachVars>>
\* a click on the delete button of a conversation of the list, confirmed
ClickDelete ==
  /\ \E i \in DOMAIN conversations, r \in RandomValues :
       LET deleted == deleteConversation(Manager, conversations[i].id, generateId(now, r))
           after == IF getActive(deleted) # NoMatch
                    THEN Switched(deleted, fileViewer, deleted.activeId)
                    ELSE [manager |-> deleted, viewer |-> fileViewer]
       IN Becomes(after.manager) /\ fileViewer' = after.viewer
  /\ UNCHANGED <<now, saves>>
  /\ UNCHANGED <<bslVars, xmlVars, detectVars, hlVars, renderVars, diagramVars, copyVars, foldVars, appendVars, chatVars, foldingVars, attachVars>>
\* a click on the clear all button, confirmed
ClickClearAll ==
  /\ \E r \in RandomValues : Becomes(clearAll(Manager, generateId(now, r)))
  /\ UNCHANGED <<fileViewer, now, saves>>
  /\ UNCHANGED <<bslVars, xmlVars, detectVars, hlVars, renderVars, diagramVars, copyVars, foldVars, appendVars, chatVars, foldingVars, attachVars>>
\* saveMessageToHistory with the next message, while fewer than max were saved
SaveMessage(max) ==
  /\ saves < max
  /\ saves' = saves + 1
  /\ Becomes(saveMessageToHistory(Manager, Message(saves + 1)))
  /\ UNCHANGED <<fileViewer, now>>
  /\ UNCHANGED <<bslVars, xmlVars, detectVars, hlVars, renderVars, diagramVars, copyVars, foldVars, appendVars, chatVars, foldingVars, attachVars>>
SaveMessageInContext == SaveMessage(MaxMessages)
\* the page is loaded again: a new manager, a new viewer, restoreInitialFileViewerState
ReloadPage ==
  /\ \E r \in RandomValues :
       LET m == constructor(localStorage, generateId(now, r))
           state == loadFileViewerState(m, m.activeId)
       IN /\ fileViewer' = state
          /\ Becomes(IF state # NoFile THEN saveCurrentState(m, state) ELSE m)
  /\ UNCHANGED <<now, saves>>
  /\ UNCHANGED <<bslVars, xmlVars, detectVars, hlVars, renderVars, diagramVars, copyVars, foldVars, appendVars, chatVars, foldingVars, attachVars>>
NextContexts ==
  \/ Tick \/ OpenFile \/ CloseFile \/ ClickNewConversation \/ ClickConversation
  \/ ClickDelete \/ ClickClearAll \/ SaveMessageInContext \/ ReloadPage
SpecContexts == InitManager /\ [][NextContexts]_vars

ListedIds == {conversations[i].id : i \in DOMAIN conversations}
\* C35: the file viewer state stored under a conversation's key was opened while that
\* conversation was the active one, and no history or file viewer key is left of a
\* conversation that is not in the list.
ContextsIsolated ==
  /\ \A id \in DOMAIN localStorage.fileviewer : localStorage.fileviewer[id][2] = id
  /\ DOMAIN localStorage.fileviewer \subseteq ListedIds
  /\ DOMAIN localStorage.history \subseteq ListedIds


\* messages are saved to the conversation the page starts with
NextHistory == SaveMessage(MaxSaves)
SpecHistory == InitManager /\ [][NextHistory]_vars
\* the messages saved so far, in the order they were saved
AllSaved == [n \in 1..saves |-> Message(n)]
BlockAt(lineNumber) ==
  LET hits == {k \in DOMAIN foldableBlocks : foldableBlocks[k].startLine = lineNumber}
  IN IF hits = {} THEN NoMatch ELSE CHOOSE k \in hits : \A j \in hits : k <= j
\* the manager's side of the blocks: indicators, collapsed flags and foldingState
Folding == [indicator |-> blockIndicator, collapsed |-> blockCollapsed, state |-> foldingState]
\* while (lastLineToHide + 1 < lines.length && lines[lastLineToHide + 1].trim() === '')
RECURSIVE LastLineToHide(_, _)
LastLineToHide(lines, line) ==
  IF line + 1 < Len(lines) /\ Trim(lines[line + 2]) = <<>>
  THEN LastLineToHide(lines, line + 1) ELSE line
MarkedCollapsed(g, k, lineNumber) ==
  [g EXCEPT !.collapsed[k] = TRUE, !.state = setItem(@, lineNumber, TRUE)]
collapseBlockHalf(g, lineNumber) ==
  LET k == BlockAt(lineNumber)
  IN IF lineNumber < 0 \/ k = NoMatch THEN g
     ELSE IF ~g.indicator[k] \/ g.collapsed[k] THEN g
     ELSE [g EXCEPT !.collapsed[k] = TRUE]
collapseBlock(g, lineNumber) ==
  LET k == BlockAt(lineNumber)
      bodyStartLine == foldableBlocks[k].startLine + 1
      bodyEndLine == LastLineToHide(flines, foldableBlocks[k].endLine)
  IN IF lineNumber < 0 \/ k = NoMatch THEN g
     ELSE IF ~g.indicator[k] \/ g.collapsed[k] THEN g
     ELSE IF ftext = <<>> THEN g
     ELSE IF bodyStartLine > bodyEndLine THEN MarkedCollapsed(g, k, lineNumber)
     ELSE IF bodyStartLine >= Len(flines) \/ bodyEndLine >= Len(flines) THEN g
     ELSE MarkedCollapsed(g, k, lineNumber)
expandBlock(g, lineNumber) ==
  LET k == BlockAt(lineNumber)
  IN IF lineNumber < 0 \/ k = NoMatch THEN g
     ELSE IF ~g.indicator[k] \/ ~g.collapsed[k] THEN g
     ELSE [g EXCEPT !.collapsed[k] = FALSE, !.state = setItem(@, lineNumber, FALSE)]
toggleFold(g, lineNumber) ==
  LET k == BlockAt(lineNumber)
  IN IF lineNumber < 0 \/ k = NoMatch THEN g
     ELSE IF ~g.indicator[k] THEN g
     ELSE IF g.collapsed[k] THEN expandBlock(g, lineNumber) ELSE collapseBlock(g, lineNumber)
\* this.foldableBlocks.forEach(...) from block k on
RECURSIVE CollapseFrom(_, _)
CollapseFrom(g, k) ==
  IF k > Len(foldableBlocks) THEN g
  ELSE CollapseFrom(IF ~g.collapsed[k] THEN collapseBlock(g, foldableBlocks[k].startLine) ELSE g, k + 1)
collapseAll(g) == CollapseFrom(g, 1)
RECURSIVE ExpandFrom(_, _)
ExpandFrom(g, k) ==
  IF k > Len(foldableBlocks) THEN g
  ELSE ExpandFrom(IF g.collapsed[k] THEN expandBlock(g, foldableBlocks[k].startLine) ELSE g, k + 1)
expandAll(g) == ExpandFrom(g, 1)
\* Object.entries(state).forEach(...): the keys in rising order, from line on
RECURSIVE RestoreFrom(_, _, _)
RestoreFrom(g, state, line) ==
  IF \A key \in DOMAIN state : key < line THEN g
  ELSE RestoreFrom(IF line \in DOMAIN state /\ BlockAt(line) # NoMatch /\ state[line]
                   THEN collapseBlock(g, line) ELSE g,
                   state, line + 1)
restoreFoldingState(g, state) == RestoreFrom(g, state, 0)
getFoldingState(g) == g.state
\* the lines a file in the viewer is made of
FoldingLineAtoms ==
  {<<"P","r","o","c","e","d","u","r","e"," ","A">>, <<"E","n","d","P","r","o","c","e","d","u","r","e">>,
   <<"u0444","u0443","u043D","u043A","u0446","u0438","u044F"," ","u0411","(">>,
   <<"u043A","u043E","u043D","u0435","u0446","u0444","u0443","u043D","u043A","u0446","u0438","u0438">>,
   <<"/","/"," ","c">>}
FoldingInputs == {Join(w, <<"\n">>) : w \in SeqsUpTo(FoldingLineAtoms, MaxFoldingLines)}
LineNumbers == 0..MaxFoldingLines
\* a file is opened in the viewer: a manager has been constructed on its code
InitFolding ==
  /\ ftext \in FoldingInputs
  /\ flines = <<>> /\ fi = 0 /\ fcurrent = NoBlock /\ fblocks = <<>>
  /\ foldableBlocks = <<>> /\ fpc = "call"
  /\ FoldingIdle
  /\ BslIdle /\ XmlIdle /\ DetectIdle /\ HlIdle /\ RenderIdle /\ DiagramIdle /\ CopyIdle /\ AppendIdle /\ ChatIdle /\ ConvIdle /\ AttachIdle
\* a new manager on the same code: the blocks as parsed, the indicators as
\* injectFoldIndicators could place them, then restoreFoldingState(state) if there is one
NewManager(indicator, state) ==
  LET fresh == [indicator |-> indicator,
                collapsed |-> [k \in DOMAIN foldableBlocks |-> FALSE],
                state |-> <<>>]
  IN IF state = NoState THEN fresh ELSE restoreFoldingState(fresh, state[1])
IndicatorChoices == [DOMAIN foldableBlocks -> BOOLEAN]
ManagerBecomes(g) ==
  /\ blockIndicator' = g.indicator
  /\ blockCollapsed' = g.collapsed
  /\ foldingState' = g.state
\* applyCodeFolding after the parse, and the end of FileViewer.open: no manager is kept when
\* there are no blocks; else indicators, the stored state restored, the state saved
ApplyCodeFolding ==
  /\ fpc = "done"
  /\ IF foldableBlocks = <<>>
     THEN /\ fpc' = "none"
          /\ UNCHANGED <<blockIndicator, blockCollapsed, foldingState, storedFoldingState>>
     ELSE /\ fpc' = "ready"
          /\ \E indicator \in IndicatorChoices :
               LET g == NewManager(indicator, storedFoldingState)
               IN ManagerBecomes(g) /\ storedFoldingState' = <<getFoldingState(g)>>
  /\ UNCHANGED <<ftext, flines, fi, fcurrent, fblocks, foldableBlocks>>
  /\ UNCHANGED <<searchVisible, savedFoldingState, collapsedAtOpen>>
  /\ UNCHANGED <<bslVars, xmlVars, detectVars, hlVars, renderVars, diagramVars, copyVars, appendVars, chatVars, convVars, attachVars>>
\* a call of a method of the manager
Calls(g) ==
  /\ fpc = "ready"
  /\ ManagerBecomes(g)
  /\ UNCHANGED <<searchVisible, savedFoldingState, storedFoldingState, collapsedAtOpen>>
  /\ UNCHANGED <<bslVars, xmlVars, detectVars, hlVars, renderVars, diagramVars, copyVars, foldVars, appendVars, chatVars, convVars, attachVars>>
CallToggleFold == \E lineNumber \in LineNumbers : Calls(toggleFold(Folding, lineNumber))
CallCollapseBlock == \E lineNumber \in LineNumbers : Calls(collapseBlock(Folding, lineNumber))
CallExpandBlock == \E lineNumber \in LineNumbers : Calls(expandBlock(Folding, lineNumber))
CallCollapseAll == Calls(collapseAll(Folding))
CallExpandAll == Calls(expandAll(Folding))
NextFolding ==
  \/ NextFold \/ ApplyCodeFolding
  \/ CallToggleFold \/ CallCollapseBlock \/ CallExpandBlock \/ CallCollapseAll \/ CallExpandAll
SpecFolding == InitFolding /\ [][NextFolding]_vars

\* C38: for every block with an indicator, an entry of foldingState for its start line is
\* block.collapsed and a block without an entry is expanded; collapseBlock on a collapsed
\* block and expandBlock on an expanded block change nothing; two toggleFold calls in a row
\* on a line bring back the collapsed flag; a call with a line that starts no block changes
\* nothing.
FoldingStateAgrees ==
  fpc = "ready" =>
    /\ \A k \in DOMAIN foldableBlocks :
         blockIndicator[k] =>
           LET line == foldableBlocks[k].startLine
           IN IF line \in DOMAIN foldingState
              THEN foldingState[line] = blockCollapsed[k]
              ELSE ~blockCollapsed[k]
    /\ \A lineNumber \in LineNumbers :
         LET k == BlockAt(lineNumber)
         IN /\ (k # NoMatch /\ blockCollapsed[k]) => collapseBlock(Folding, lineNumber) = Folding
            /\ (k # NoMatch /\ ~blockCollapsed[k]) => expandBlock(Folding, lineNumber) = Folding
            /\ toggleFold(toggleFold(Folding, lineNumber), lineNumber).collapsed = blockCollapsed
            /\ k = NoMatch =>
                 /\ toggleFold(Folding, lineNumber) = Folding
                 /\ collapseBlock(Folding, lineNumber) = Folding
                 /\ expandBlock(Folding, lineNumber) = Folding
\* a comment block is collapsed, the procedure below it has been collapsed and expanded
CommentFoldedProcedureReopened ==
  /\ fpc = "ready"
  /\ \E k, j \in DOMAIN foldableBlocks :
       /\ foldableBlocks[k].blockType = "comment" /\ blockCollapsed[k]
       /\ foldableBlocks[j].blockType = "procedure" /\ ~blockCollapsed[j]
       /\ foldableBlocks[j].startLine \in DOMAIN foldingState


\* ------------------------------------------------ app.js FileViewer search and folding
\* reapplyCodeFolding(foldingState) on a file with blocks: a new manager on the restored
\* code, with the given state when it has keys, else with the stored one
reapplyCodeFolding(state) ==
  IF state # NoState /\ DOMAIN state[1] # {}
  THEN NewManager(blockIndicator, state)
  ELSE NewManager(blockIndicator, storedFoldingState)
\* the search panel is opened on a file with blocks
OpenSearch ==
  /\ fpc = "ready" /\ ~searchVisible
  /\ savedFoldingState' =
       (IF savedFoldingState = NoState THEN <<getFoldingState(Folding)>> ELSE savedFoldingState)
  /\ searchVisible' = TRUE
  /\ collapsedAtOpen' = blockCollapsed
  /\ UNCHANGED <<blockIndicator, blockCollapsed, foldingState, storedFoldingState>>
  /\ UNCHANGED <<bslVars, xmlVars, detectVars, hlVars, renderVars, diagramVars, copyVars, foldVars, appendVars, chatVars, convVars, attachVars>>
\* expandBlocksWithMatches: the collapsed blocks that hold a line with a match are expanded
RECURSIVE ExpandMatchesFrom(_, _, _)
ExpandMatchesFrom(g, highlightLines, k) ==
  IF k > Len(foldableBlocks) THEN g
  ELSE ExpandMatchesFrom(
         IF /\ g.collapsed[k]
            /\ \E lineNum \in highlightLines :
                 lineNum >= foldableBlocks[k].startLine /\ lineNum <= foldableBlocks[k].endLine
         THEN expandBlock(g, foldableBlocks[k].startLine) ELSE g,
         highlightLines, k + 1)
\* the search runs on a query: some lines hold matches
PerformSearch ==
  /\ fpc = "ready" /\ searchVisible
  /\ savedFoldingState' =
       (IF savedFoldingState = NoState THEN <<getFoldingState(Folding)>> ELSE savedFoldingState)
  /\ \E highlightLines \in SUBSET (0..(Len(flines) - 1)) :
       ManagerBecomes(ExpandMatchesFrom(Folding, highlightLines, 1))
  /\ UNCHANGED <<searchVisible, storedFoldingState, collapsedAtOpen>>
  /\ UNCHANGED <<bslVars, xmlVars, detectVars, hlVars, renderVars, diagramVars, copyVars, foldVars, appendVars, chatVars, convVars, attachVars>>
\* the search panel is closed
CloseSearch ==
  /\ fpc = "ready" /\ searchVisible
  /\ searchVisible' = FALSE
  /\ ManagerBecomes(reapplyCodeFolding(savedFoldingState))
  /\ savedFoldingState' = NoState
  /\ UNCHANGED <<storedFoldingState, collapsedAtOpen>>
  /\ UNCHANGED <<bslVars, xmlVars, detectVars, hlVars, renderVars, diagramVars, copyVars, foldVars, appendVars, chatVars, convVars, attachVars>>
\* switchToConversation while the file is shown and the search panel is closed, to the
\* conversation that is active: the state is stored, loaded and restored by FileViewer.open
SwitchToActive ==
  /\ fpc = "ready" /\ ~searchVisible
  /\ LET g == NewManager(blockIndicator, <<getFoldingState(Folding)>>)
     IN ManagerBecomes(g) /\ storedFoldingState' = <<getFoldingState(g)>>
  /\ savedFoldingState' = NoState
  /\ UNCHANGED <<searchVisible, collapsedAtOpen>>
  /\ UNCHANGED <<bslVars, xmlVars, detectVars, hlVars, renderVars, diagramVars, copyVars, foldVars, appendVars, chatVars, convVars, attachVars>>
NextSearch ==
  \/ NextFolding \/ OpenSearch \/ PerformSearch \/ CloseSearch \/ SwitchToActive
SpecSearch == InitFolding /\ [][NextSearch]_vars

\* C37: when the search panel is closed, every block is collapsed or expanded as it was when
\* the panel was opened.
SearchRestoresFolding ==
  [][(searchVisible /\ ~searchVisible') => blockCollapsed' = collapsedAtOpen]_vars


\* ------------------------------------------------------ app.js FileAttachmentManager
validExtensions == {<<".", "b", "s", "l">>, <<".", "x", "m", "l">>, <<".", "t", "x", "t">>}
\* String.prototype.endsWith
EndsWith(s, suffix) ==
  Len(s) >= Len(suffix) /\ SubSeq(s, Len(s) - Len(suffix) + 1, Len(s)) = suffix
hasValidExtension(name) == \E ext \in validExtensions : EndsWith(ToLower(name), ext)
\* this.attachedFiles.some(f => f.file.name === file.name)
IsAttached(attached, name) == \E k \in DOMAIN attached : attached[k].name = name
RECURSIVE getTotalSizeKB(_)
getTotalSizeKB(attached) ==
  IF attached = <<>> THEN 0 ELSE Head(attached).size + getTotalSizeKB(Tail(attached))
FitsAlone(attached, file, limit) == file.size <= limit
\* currentTotalSizeKB + sizeKB > this.maxSizeKB is false
Fits(attached, file, limit) == getTotalSizeKB(attached) + file.size <= limit
\* the loop of handleFileSelection from file k on, up to the next await: the index of the
\* first file that is read, 0 when the loop ends without reading one
RECURSIVE NextRead(_, _, _)
NextRead(files, k, attached) ==
  IF k > Len(files) THEN 0
  ELSE IF ~hasValidExtension(files[k].name) \/ IsAttached(attached, files[k].name)
       THEN NextRead(files, k + 1, attached)
       ELSE k
\* the files a picker can hand over: names with and without a valid extension, sizes in KB
PickedFiles ==
  {[name |-> <<"a", ".", "t", "x", "t">>, size |-> 1], [name |-> <<"a", ".", "t", "x", "t">>, size |-> 2],
   [name |-> <<"B", ".", "B", "S", "L">>, size |-> 2], [name |-> <<"c", ".", "p", "d", "f">>, size |-> 1]}
FileLists == {files \in SeqsUpTo(PickedFiles, MaxPicked) : files # <<>>}
\* the files picked so far
RECURSIVE Picked(_)
Picked(calls) == IF calls = <<>> THEN 0 ELSE Len(Head(calls).files) + Picked(Tail(calls))
\* the manager is constructed and init() has loaded the configuration
InitAttach ==
  /\ attachedFiles = <<>> /\ selections = <<>> /\ rendered = 0
  /\ maxSizeKB \in 1..MaxLimitKB
  /\ BslIdle /\ XmlIdle /\ DetectIdle /\ HlIdle /\ RenderIdle /\ DiagramIdle /\ CopyIdle /\ FoldIdle /\ AppendIdle /\ ChatIdle /\ ConvIdle /\ FoldingIdle
\* the end of a call: renderAttachedFiles() when files were added
RenderedAfter(at, addedCount, attached) ==
  IF at = 0 /\ addedCount > 0 THEN Len(attached) ELSE rendered
\* the change listener of the file input: handleFileSelection(files) up to its first await
SelectFiles ==
  /\ Len(selections) < MaxSelections
  /\ \E files \in FileLists :
       LET at == NextRead(files, 1, attachedFiles)
       IN /\ Picked(selections) + Len(files) <= MaxPicked
          /\ selections' = Append(selections, [files |-> files, at |-> at, addedCount |-> 0])
          /\ rendered' = RenderedAfter(at, 0, attachedFiles)
  /\ UNCHANGED <<attachedFiles, maxSizeKB>>
  /\ UNCHANGED <<bslVars, xmlVars, detectVars, hlVars, renderVars, diagramVars, copyVars, foldVars, appendVars, chatVars, convVars, foldingVars>>
\* readFileContent of call c is fulfilled: the size check, the push, and the loop up to the
\* next await
ReadLoaded(c) ==
  /\ c \in DOMAIN selections /\ selections[c].at # 0
  /\ LET call == selections[c]
         file == call.files[call.at]
         fits == Fits(attachedFiles, file, maxSizeKB)
         attached == IF fits THEN Append(attachedFiles, file) ELSE attachedFiles
         addedCount == IF fits THEN call.addedCount + 1 ELSE call.addedCount
         at == NextRead(call.files, call.at + 1, attached)
     IN /\ attachedFiles' = attached
        /\ selections' = [selections EXCEPT ![c].at = at, ![c].addedCount = addedCount]
        /\ rendered' = RenderedAfter(at, addedCount, attached)
  /\ UNCHANGED maxSizeKB
  /\ UNCHANGED <<bslVars, xmlVars, detectVars, hlVars, renderVars, diagramVars, copyVars, foldVars, appendVars, chatVars, convVars, foldingVars>>
\* readFileContent of call c is rejected: the catch clause, and the loop up to the next await
ReadFailed(c) ==
  /\ c \in DOMAIN selections /\ selections[c].at # 0
  /\ LET call == selections[c]
         at == NextRead(call.files, call.at + 1, attachedFiles)
     IN /\ selections' = [selections EXCEPT ![c].at = at]
        /\ rendered' = RenderedAfter(at, call.addedCount, attachedFiles)
  /\ UNCHANGED <<attachedFiles, maxSizeKB>>
  /\ UNCHANGED <<bslVars, xmlVars, detectVars, hlVars, renderVars, diagramVars, copyVars, foldVars, appendVars, chatVars, convVars, foldingVars>>
\* a click on the remove button of a rendered item: removeFile(index)
RemoveFile ==
  /\ \E index \in 0..(rendered - 1) :
       attachedFiles' = SubSeq(attachedFiles, 1, index) \o SubSeq(attachedFiles, index + 2, Len(attachedFiles))
  /\ rendered' = Len(attachedFiles')
  /\ UNCHANGED <<maxSizeKB, selections>>
  /\ UNCHANGED <<bslVars, xmlVars, detectVars, hlVars, renderVars, diagramVars, copyVars, foldVars, appendVars, chatVars, convVars, foldingVars>>
\* a message is submitted with files attached: clearAttachedFiles()
ClearAttachedFiles ==
  /\ attachedFiles # <<>>
  /\ attachedFiles' = <<>> /\ rendered' = 0
  /\ UNCHANGED <<maxSizeKB, selections>>
  /\ UNCHANGED <<bslVars, xmlVars, detectVars, hlVars, renderVars, diagramVars, copyVars, foldVars, appendVars, chatVars, convVars, foldingVars>>
NextAttach ==
  \/ SelectFiles \/ RemoveFile \/ ClearAttachedFiles
  \/ \E c \in 1..MaxSelections : ReadLoaded(c) \/ ReadFailed(c)
SpecAttach == InitAttach /\ [][NextAttach]_vars

\* the calls that are waiting for a file to be read
ReadingCalls == {c \in DOMAIN selections : selections[c].at # 0}
\* C39: the sizes of the attached files sum up to maxSizeKB at most, and when a read ends on
\* a file that would bring the sum over the limit the list is left as it is.
SizeWithinLimit ==
  [][/\ getTotalSizeKB(attachedFiles') <= maxSizeKB'
     /\ \A c \in ReadingCalls :
          (/\ selections'[c] # selections[c]
           /\ getTotalSizeKB(attachedFiles) + selections[c].files[selections[c].at].size > maxSizeKB)
            => attachedFiles' = attachedFiles]_vars
\* two calls are reading at once, the list is not empty, and the file one of them reads does
\* not fit any more
InterleavedReadsAtLimit ==
  /\ Cardinality(ReadingCalls) = 2
  /\ attachedFiles # <<>>
  /\ \E c \in ReadingCalls :
       getTotalSizeKB(attachedFiles) + selections[c].files[selections[c].at].size > maxSizeKB

\* C40: no two entries of attachedFiles have the same file name.
AttachedNamesDistinct ==
  \A i, j \in DOMAIN attachedFiles : attachedFiles[i].name = attachedFiles[j].name => i = j

====
